---- MODULE Spec2Model ----
(***************************************************************************)
(* Model of the agent execution core of kon: the session store             *)
(* (src/kon/session.py), the turn executor (src/kon/turn.py) and the       *)
(* agent loop (src/kon/loop.py).                                           *)
(*                                                                         *)
(* Three specifications share the operators:                               *)
(*   SessionSpec - a session driven by arbitrary appends and reloads;      *)
(*   Spec        - Agent.run over several turns, the provider yielding     *)
(*                 the parts of CoreParts;                                 *)
(*   TurnSpec    - Agent.run with max_turns = 1, the provider yielding     *)
(*                 any part of StreamParts.                                *)
(* In both the user may set the cancellation signal.                       *)
(***************************************************************************)
EXTENDS Integers, Sequences, FiniteSets, TLC

VARIABLES
    session,      \* the Session object (session.py:138-165)
    disk,         \* the session file on disk
    rng,          \* position in the tape of values uuid4() will return
    cfg,          \* configuration read by the loop and the executor
    cancel,       \* cancel_event.is_set()
    pc,           \* position of Agent.run
    run,          \* locals of Agent.run
    t,            \* locals of run_single_turn
    events,       \* the events yielded by Agent.run so far
    obs,          \* what the provider and the tools were asked to do
    ui            \* the state of the terminal app (ui/app.py:144-150)

vars == <<session, disk, rng, cfg, cancel, pc, run, t, events, obs, ui>>
agentVars == <<cfg, cancel, pc, run, t, events, obs, ui>>

(***************************************************************************)
(* Bounds                                                                  *)
(***************************************************************************)
MaxEntries == 4         \* appends made to one session in SessionSpec
MaxParts == 3           \* stream parts the provider yields in TurnSpec
MaxRunParts == 2        \* stream parts the provider yields in a run of Spec
MaxTurns == 2           \* largest configured max_turns

(***************************************************************************)
(* Values                                                                  *)
(***************************************************************************)
None == "None"          \* Python None where a string is expected
JsonNull == "null"      \* JSON null
NoneOpt == <<>>         \* Python None where an object is expected
Some(x) == <<x>>

\* The values successive calls of Session.generate_id() return.  The tape
\* repeats values, so the retry loop of _generate_entry_id is exercised.
RngTape == <<"e1", "e1", "e2", "e1", "e3", "e2", "e4", "e5", "e3", "e6",
             "e7", "e8", "e9", "e10", "e11", "e12", "e13", "e14", "e15",
             "e16", "e17", "e18", "e19", "e20">>

IdRetries == 100

(***************************************************************************)
(* Messages (core.types, as used by session.py, turn.py and loop.py)       *)
(***************************************************************************)
UserMessage(text) == [role |-> "user", content |-> text]

AssistantMessage(content, usage, stop_reason) ==
    [role |-> "assistant", content |-> content, usage |-> usage,
     stop_reason |-> stop_reason]

ToolResultMessage(tool_call_id, tool_name, text, is_error) ==
    [role |-> "tool_result", tool_call_id |-> tool_call_id,
     tool_name |-> tool_name, content |-> text, is_error |-> is_error]

TextContent(text) == [type |-> "text", text |-> text]
ThinkingContent(thinking, signature) ==
    [type |-> "thinking", thinking |-> thinking, signature |-> signature]
ToolCall(id, name, arguments) ==
    [type |-> "tool_call", id |-> id, name |-> name, arguments |-> arguments]

Usage(input, output, cache_read, cache_write) ==
    [input_tokens |-> input, output_tokens |-> output,
     cache_read_tokens |-> cache_read, cache_write_tokens |-> cache_write]

(***************************************************************************)
(* Session entries (session.py:41-92)                                      *)
(***************************************************************************)
MessageEntry(id, parent_id, message) ==
    [type |-> "message", id |-> id, parent_id |-> parent_id,
     message |-> message]

ThinkingLevelChangeEntry(id, parent_id, thinking_level) ==
    [type |-> "thinking_level_change", id |-> id, parent_id |-> parent_id,
     thinking_level |-> thinking_level]

ModelChangeEntry(id, parent_id, provider, model_id, base_url) ==
    [type |-> "model_change", id |-> id, parent_id |-> parent_id,
     provider |-> provider, model_id |-> model_id, base_url |-> base_url]

CompactionEntry(id, parent_id, summary, first_kept_entry_id, tokens_before) ==
    [type |-> "compaction", id |-> id, parent_id |-> parent_id,
     summary |-> summary, first_kept_entry_id |-> first_kept_entry_id,
     tokens_before |-> tokens_before]

CustomMessageEntry(id, parent_id, custom_type, content, display) ==
    [type |-> "custom_message", id |-> id, parent_id |-> parent_id,
     custom_type |-> custom_type, content |-> content, display |-> display]

SessionInfoEntry(id, parent_id, name) ==
    [type |-> "session_info", id |-> id, parent_id |-> parent_id,
     name |-> name]

SessionHeader(id, cwd) ==
    [type |-> "header", version |-> 1, id |-> id, cwd |-> cwd]

(***************************************************************************)
(* JSON lines: model_dump_json() and model_validate()                      *)
(***************************************************************************)
ToJson(v) == IF v = None THEN JsonNull ELSE v
FromJson(v) == IF v = JsonNull THEN None ELSE v

\* entry.model_dump_json(): one JSON object per line
DumpEntry(e) ==
    CASE e.type = "message" ->
           [type |-> "message", id |-> e.id, parent_id |-> ToJson(e.parent_id),
            message |-> e.message]
      [] e.type = "thinking_level_change" ->
           [type |-> "thinking_level_change", id |-> e.id,
            parent_id |-> ToJson(e.parent_id),
            thinking_level |-> e.thinking_level]
      [] e.type = "model_change" ->
           [type |-> "model_change", id |-> e.id,
            parent_id |-> ToJson(e.parent_id), provider |-> e.provider,
            model_id |-> e.model_id, base_url |-> ToJson(e.base_url)]
      [] e.type = "compaction" ->
           [type |-> "compaction", id |-> e.id,
            parent_id |-> ToJson(e.parent_id), summary |-> e.summary,
            first_kept_entry_id |-> e.first_kept_entry_id,
            tokens_before |-> e.tokens_before]
      [] e.type = "custom_message" ->
           [type |-> "custom_message", id |-> e.id,
            parent_id |-> ToJson(e.parent_id), custom_type |-> e.custom_type,
            content |-> e.content, display |-> e.display]
      [] e.type = "session_info" ->
           [type |-> "session_info", id |-> e.id,
            parent_id |-> ToJson(e.parent_id), name |-> ToJson(e.name)]

DumpHeader(h) ==
    [type |-> "header", version |-> h.version, id |-> h.id, cwd |-> h.cwd]

\* the dispatch on data["type"] of Session.load; <<>> for a skipped line
ParseEntry(data) ==
    CASE data.type = "message" ->
           <<MessageEntry(data.id, FromJson(data.parent_id), data.message)>>
      [] data.type = "thinking_level_change" ->
           <<ThinkingLevelChangeEntry(data.id, FromJson(data.parent_id),
                                      data.thinking_level)>>
      [] data.type = "model_change" ->
           <<ModelChangeEntry(data.id, FromJson(data.parent_id), data.provider,
                              data.model_id, FromJson(data.base_url))>>
      [] data.type = "compaction" ->
           <<CompactionEntry(data.id, FromJson(data.parent_id), data.summary,
                             data.first_kept_entry_id, data.tokens_before)>>
      [] data.type = "custom_message" ->
           <<CustomMessageEntry(data.id, FromJson(data.parent_id),
                                data.custom_type, data.content, data.display)>>
      [] data.type = "session_info" ->
           <<SessionInfoEntry(data.id, FromJson(data.parent_id),
                              FromJson(data.name))>>
      [] OTHER -> <<>>

(***************************************************************************)
(* Session (session.py:106-480)                                            *)
(***************************************************************************)
RECURSIVE SeqMap(_, _)
SeqMap(Op(_), s) ==
    IF s = <<>> THEN <<>> ELSE <<Op(Head(s))>> \o SeqMap(Op, Tail(s))

EntryIds(entries) == {entries[i].id : i \in DOMAIN entries}

\* Session.__init__
NewSession(session_id, cwd, session_file, persist, provider, model_id, thinking_level) ==
    [id |-> session_id, cwd |-> cwd, session_file |-> session_file,
     persist |-> persist, header |-> NoneOpt, entries |-> <<>>,
     by_id |-> {}, leaf_id |-> None, initial_provider |-> provider,
     initial_model_id |-> model_id,
     initial_thinking_level |-> thinking_level, flushed |-> FALSE]

\* Session.create: the header is set, and a file path only when persisting
SessionCreate(cwd, persist, provider, model_id, thinking_level) ==
    [NewSession("sid", cwd, IF persist THEN "path" ELSE None, persist,
                provider, model_id, thinking_level)
        EXCEPT !.header = Some(SessionHeader("sid", cwd))]

\* Session._generate_entry_id: the number of draws (at most IdRetries) until
\* a value that is not in by_id; 0 when the tape of this model runs out
RECURSIVE DrawsUntilFresh(_, _, _)
DrawsUntilFresh(by_id, pos, tries) ==
    IF pos > Len(RngTape) \/ tries >= IdRetries THEN 0
    ELSE IF RngTape[pos] \notin by_id THEN tries + 1
    ELSE DrawsUntilFresh(by_id, pos + 1, tries + 1)

CanGenerateEntryId(s, r) == DrawsUntilFresh(s.by_id, r, 0) > 0
\* mutant: the first value drawn is taken without looking at by_id
GenerateEntryId_NoRetry(s, r) == RngTape[r]
GenerateEntryId(s, r) == RngTape[r + DrawsUntilFresh(s.by_id, r, 0) - 1]
RngAfter(s, r) == r + DrawsUntilFresh(s.by_id, r, 0)

HasAssistant(entries) ==
    \E i \in DOMAIN entries :
        entries[i].type = "message" /\ entries[i].message.role = "assistant"

\* mutant: the first flush writes the header and the new entry only
WriteAll_OnlyLast(s, d) ==
    [exists |-> TRUE,
     lines |-> <<DumpHeader(s.header[1]),
                 DumpEntry(s.entries[Len(s.entries)])>>]

\* Session._write_all: open(..., "w"), the header, then every entry
WriteAll(s, d) ==
    IF s.session_file = None THEN d
    ELSE [exists |-> TRUE,
          lines |-> (IF s.header # NoneOpt
                     THEN <<DumpHeader(s.header[1])>> ELSE <<>>)
                    \o SeqMap(DumpEntry, s.entries)]

\* mutant: the file is opened for writing and holds the new line only
AppendLine_Truncates(d, entry) ==
    [exists |-> TRUE, lines |-> <<DumpEntry(entry)>>]

\* open(..., "a") and one line
AppendLine(d, entry) ==
    [exists |-> TRUE, lines |-> Append(d.lines, DumpEntry(entry))]

\* mutant: the first flush does not wait for an assistant message
PersistEntry_NoGate(s, d, entry) ==
    IF ~s.persist \/ s.session_file = None THEN [s |-> s, d |-> d]
    ELSE IF ~s.flushed
         THEN [s |-> [s EXCEPT !.flushed = TRUE], d |-> WriteAll(s, d)]
         ELSE [s |-> s, d |-> AppendLine(d, entry)]

\* Session._persist_entry, called with the entry already in s.entries:
\* the session and the disk afterwards
PersistEntry(s, d, entry) ==
    IF ~s.persist \/ s.session_file = None THEN [s |-> s, d |-> d]
    ELSE IF ~HasAssistant(s.entries) THEN [s |-> s, d |-> d]
    ELSE IF ~s.flushed
         THEN [s |-> [s EXCEPT !.flushed = TRUE], d |-> WriteAll(s, d)]
         ELSE [s |-> s, d |-> AppendLine(d, entry)]

\* Session._append_entry
AppendEntry(s, d, entry) ==
    PersistEntry([s EXCEPT !.entries = Append(@, entry),
                           !.by_id = @ \cup {entry.id},
                           !.leaf_id = entry.id],
                 d, entry)

\* Session.append_message and its siblings: the entry each one builds
AppendMessage(s, d, r, message) ==
    AppendEntry(s, d, MessageEntry(GenerateEntryId(s, r), s.leaf_id, message))

AppendThinkingLevelChange(s, d, r, thinking_level) ==
    AppendEntry(s, d, ThinkingLevelChangeEntry(GenerateEntryId(s, r),
                                               s.leaf_id, thinking_level))

AppendModelChange(s, d, r, provider, model_id, base_url) ==
    AppendEntry(s, d, ModelChangeEntry(GenerateEntryId(s, r), s.leaf_id,
                                       provider, model_id, base_url))

AppendCompaction(s, d, r, summary, first_kept_entry_id, tokens_before) ==
    AppendEntry(s, d, CompactionEntry(GenerateEntryId(s, r), s.leaf_id,
                                      summary, first_kept_entry_id,
                                      tokens_before))

AppendCustomMessage(s, d, r, custom_type, content, display) ==
    AppendEntry(s, d, CustomMessageEntry(GenerateEntryId(s, r), s.leaf_id,
                                         custom_type, content, display))

AppendSessionInfo(s, d, r, name) ==
    AppendEntry(s, d, SessionInfoEntry(GenerateEntryId(s, r), s.leaf_id, name))

\* [e.message for e in entries if isinstance(e, MessageEntry)]
EntryMessages(entries) ==
    LET of == SelectSeq(entries, LAMBDA e : e.type = "message")
    IN  [i \in 1..Len(of) |-> of[i].message]

\* Session.all_messages
AllMessages(s) == EntryMessages(s.entries)

\* mutant: the view keeps the messages from before the compaction
Messages_KeepsAll(s) ==
    LET at == {i \in DOMAIN s.entries : s.entries[i].type = "compaction"}
    IN  IF at = {} THEN EntryMessages(s.entries)
        ELSE LET last == s.entries[CHOOSE i \in at : \A j \in at : j <= i]
             IN  <<UserMessage("What did we do so far?"),
                   AssistantMessage(<<TextContent(last.summary)>>, NoneOpt,
                                    "stop")>>
                   \o EntryMessages(s.entries)

\* Session.messages: the scan from the end finds the last compaction entry;
\* the scan from the start passes the first compaction entry with its id
Messages(s) ==
    LET at == {i \in DOMAIN s.entries : s.entries[i].type = "compaction"}
    IN  IF at = {} THEN EntryMessages(s.entries)
        ELSE LET last == s.entries[CHOOSE i \in at : \A j \in at : j <= i]
                 same == {i \in at : s.entries[i].id = last.id}
                 past == CHOOSE i \in same : \A j \in same : i <= j
             IN  <<UserMessage("What did we do so far?"),
                   AssistantMessage(<<TextContent(last.summary)>>, NoneOpt,
                                    "stop")>>
                   \o EntryMessages(SubSeq(s.entries, past + 1,
                                           Len(s.entries)))

\* the last entry of a type, scanning in reverse
RECURSIVE LastOfType(_, _)
LastOfType(entries, type) ==
    IF entries = <<>> THEN NoneOpt
    ELSE IF entries[Len(entries)].type = type
         THEN Some(entries[Len(entries)])
         ELSE LastOfType(SubSeq(entries, 1, Len(entries) - 1), type)

\* Session.thinking_level
ThinkingLevel(s) ==
    IF LastOfType(s.entries, "thinking_level_change") # NoneOpt
    THEN LastOfType(s.entries, "thinking_level_change")[1].thinking_level
    ELSE s.initial_thinking_level

\* Session.model: <<provider, model_id, base_url>> or <<>> for None
Model(s) ==
    IF LastOfType(s.entries, "model_change") # NoneOpt
    THEN LET e == LastOfType(s.entries, "model_change")[1]
         IN  <<e.provider, e.model_id, e.base_url>>
    ELSE IF s.initial_provider # None /\ s.initial_model_id # None
         THEN <<s.initial_provider, s.initial_model_id, None>>
         ELSE <<>>

\* Session.name: the latest session-info entry with a non-empty name
Name(s) ==
    LET named == SelectSeq(s.entries,
                           LAMBDA e : e.type = "session_info" /\ e.name # None
                                      /\ e.name # "")
    IN  IF named = <<>> THEN None ELSE named[Len(named)].name

\* Session.load: [ok |-> FALSE] for FileNotFoundError and for "no header"
RECURSIVE LoadEntries(_)
LoadEntries(lines) ==
    IF lines = <<>> THEN <<>>
    ELSE ParseEntry(Head(lines)) \o LoadEntries(Tail(lines))

RECURSIVE LoadHeader(_)
LoadHeader(lines) ==
    IF lines = <<>> THEN NoneOpt
    ELSE IF lines[Len(lines)].type = "header"
         THEN Some(SessionHeader(lines[Len(lines)].id, lines[Len(lines)].cwd))
         ELSE LoadHeader(SubSeq(lines, 1, Len(lines) - 1))

Load_DefaultHigh(d) ==
    IF ~d.exists \/ LoadHeader(d.lines) = NoneOpt THEN [ok |-> FALSE]
    ELSE LET header == LoadHeader(d.lines)[1]
             entries == LoadEntries(d.lines)
         IN  [ok |-> TRUE,
              session |->
                [NewSession(header.id, header.cwd, "path", TRUE, None, None,
                            "high")
                    EXCEPT !.header = Some(header),
                           !.entries = entries,
                           !.by_id = EntryIds(entries),
                           !.leaf_id = IF entries # <<>>
                                       THEN entries[Len(entries)].id
                                       ELSE None,
                           !.flushed = TRUE]]

Load(d) ==
    IF ~d.exists \/ LoadHeader(d.lines) = NoneOpt THEN [ok |-> FALSE]
    ELSE LET header == LoadHeader(d.lines)[1]
             entries == LoadEntries(d.lines)
         IN  [ok |-> TRUE,
              session |->
                [NewSession(header.id, header.cwd, "path", TRUE, None, None,
                            "medium")
                    EXCEPT !.header = Some(header),
                           !.entries = entries,
                           !.by_id = EntryIds(entries),
                           !.leaf_id = IF entries # <<>>
                                       THEN entries[Len(entries)].id
                                       ELSE None,
                           !.flushed = TRUE]]

NoFile == [exists |-> FALSE, lines |-> <<>>]


\* Session.set_model and Session.set_thinking_level: no entry when the
\* current value already is the requested one
SetModelAppends(s, provider, model_id, base_url) ==
    ~(Model(s) # <<>> /\ Model(s)[1] = provider /\ Model(s)[2] = model_id
                      /\ Model(s)[3] = base_url)

SetThinkingLevelAppends(s, thinking_level) ==
    ThinkingLevel(s) # thinking_level

(***************************************************************************)
(* Stream parts and events (core.types, events.py)                         *)
(***************************************************************************)
ArgsDelta == <<"{", "k", "v", "}">>     \* one complete JSON object

ThinkParts ==
    { [kind |-> "think", delta |-> <<>>, signature |-> None],
      [kind |-> "think", delta |-> <<"t">>, signature |-> "reasoning"] }
TextParts ==
    { [kind |-> "text", delta |-> <<>>], [kind |-> "text", delta |-> <<"x">>] }
ToolCallStarts ==
    { [kind |-> "tool_call_start", id |-> "call-1", name |-> "read",
       index |-> 0],
      [kind |-> "tool_call_start", id |-> "call-2", name |-> "unknown_tool",
       index |-> 1] }
ToolCallDeltas ==
    { [kind |-> "tool_call_delta", index |-> 0, delta |-> ArgsDelta] }
StreamDones ==
    { [kind |-> "stream_done", stop_reason |-> r] :
        r \in {"stop", "tool_use", "length"} }
StreamErrors == { [kind |-> "stream_error", error |-> "boom"] }

\* the exceptions provider.stream raises, with what should_retry_for_error
\* says of each
OpenErrors ==
    { [message |-> "connection lost", retryable |-> TRUE],
      [message |-> "invalid request", retryable |-> FALSE] }
ShouldRetryForError(e) == e.retryable

StreamParts ==
    ThinkParts \cup TextParts \cup ToolCallStarts \cup ToolCallDeltas
        \cup StreamDones \cup StreamErrors

\* the parts the provider yields in the runs of several turns
CoreParts ==
    { [kind |-> "text", delta |-> <<"x">>] }
        \cup ToolCallStarts \cup StreamDones \cup StreamErrors

Ev(type) == [type |-> type]
InterruptedEvent == [type |-> "interrupted", message |-> "Interrupted by user"]
DeltaEv(type, delta) == [type |-> type, delta |-> delta]
ToolEv(type, id, name) ==
    [type |-> type, tool_call_id |-> id, tool_name |-> name]
ToolResultEvent(result) ==
    [type |-> "tool_result", tool_call_id |-> result.tool_call_id,
     tool_name |-> result.tool_name, result |-> result]
TokenUpdateEvent(id, name, count) ==
    [type |-> "tool_args_token_update", tool_call_id |-> id,
     tool_name |-> name, token_count |-> count]
ToolArgsDeltaEvent(id, delta) ==
    [type |-> "tool_args_delta", tool_call_id |-> id, delta |-> delta]
RetryEvent(attempt, total_attempts, delay, error) ==
    [type |-> "retry", attempt |-> attempt,
     total_attempts |-> total_attempts, delay |-> delay, error |-> error]
ErrorEvent(error) == [type |-> "error", error |-> error]
WarningEvent(timeout_secs) ==
    [type |-> "warning", warning |-> "Tool-call stream stalled",
     timeout_secs |-> timeout_secs]
TurnStartEvent(turn) == [type |-> "turn_start", turn |-> turn]
TurnEndEvent(turn, assistant_message, tool_results, stop_reason) ==
    [type |-> "turn_end", turn |-> turn,
     assistant_message |-> assistant_message,
     tool_results |-> tool_results, stop_reason |-> stop_reason]
AgentEndEvent(stop_reason, total_turns, total_usage) ==
    [type |-> "agent_end", stop_reason |-> stop_reason,
     total_turns |-> total_turns, total_usage |-> total_usage]
CompactionEndEvent(tokens_before, aborted) ==
    [type |-> "compaction_end", tokens_before |-> tokens_before,
     aborted |-> aborted]

(***************************************************************************)
(* Turn executor helpers (turn.py:73-184)                                  *)
(***************************************************************************)
TOOL_ARGS_TOKEN_DISPLAY_THRESHOLD == 20
TOOL_ARGS_TOKEN_CHUNK_UPDATE_INTERVAL == 4
DEFAULT_TOOL_CALL_IDLE_TIMEOUT_SECONDS == 60
RetryDelays == <<2, 4, 8>>
KnownTools == {"read", "bash"}

\* _count_tokens
CountTokens(text) == Len(text) \div 4

\* "".join(buffer)
RECURSIVE Join(_)
Join(buffer) ==
    IF buffer = <<>> THEN <<>> ELSE Head(buffer) \o Join(Tail(buffer))

\* mutant: a configured zero falls through to the default
GetToolCallIdleTimeoutSeconds_ZeroIsDefault(timeout) ==
    IF timeout < 0 THEN NoneOpt
    ELSE Some(IF timeout # 0 THEN timeout
              ELSE DEFAULT_TOOL_CALL_IDLE_TIMEOUT_SECONDS)

\* _get_tool_call_idle_timeout_seconds: <<>> for None
GetToolCallIdleTimeoutSeconds(timeout) ==
    IF timeout <= 0 THEN NoneOpt
    ELSE Some(IF timeout # 0 THEN timeout
              ELSE DEFAULT_TOOL_CALL_IDLE_TIMEOUT_SECONDS)

\* mutant: the placeholder is built with the name where the id belongs
CreateSkippedToolResult_WrongId(tool_call) ==
    ToolResultMessage(tool_call.name, tool_call.id,
                      <<"Interrupted by user">>, TRUE)

\* _create_skipped_tool_result
CreateSkippedToolResult(tool_call) ==
    ToolResultMessage(tool_call.id, tool_call.name,
                      <<"Interrupted by user">>, TRUE)

\* json.loads of the raw argument string, {} on JSONDecodeError
EmptyArgs == <<>>
JsonLoads(raw) == IF raw = ArgsDelta THEN <<"k", "v">> ELSE EmptyArgs

\* get_tool
GetTool(name) == IF name \in KnownTools THEN name ELSE None

\* tool.params(**arguments) accepts the arguments (the tools of the
\* registry have a required parameter)
ParamsOk(arguments) == arguments # EmptyArgs

\* _finalize_tool_call_data
FinalizeToolCallData(data) ==
    LET arguments == JsonLoads(data.arguments)
        tool == GetTool(data.name)
    IN  [tool_call |-> ToolCall(data.id, data.name, arguments),
         tool |-> tool,
         display |-> IF tool # None /\ ParamsOk(arguments)
                     THEN "call" ELSE ""]

\* what tool.execute can do
ToolOutcomes ==
    { [kind |-> "return", success |-> TRUE, result |-> "out"],
      [kind |-> "return", success |-> FALSE, result |-> ""],
      [kind |-> "raise", success |-> FALSE, result |-> "boom"] }

\* _execute_tool, given what tool.execute does when it is reached
ExecuteTool(tool_call, tool, outcome) ==
    IF tool = None
    THEN ToolResultMessage(tool_call.id, tool_call.name,
                           <<"Unknown tool: ", tool_call.name>>, TRUE)
    ELSE IF ~ParamsOk(tool_call.arguments)
    THEN ToolResultMessage(tool_call.id, tool_call.name,
                           <<"Error executing tool: ", "params">>, TRUE)
    ELSE IF outcome.kind = "raise"
    THEN ToolResultMessage(tool_call.id, tool_call.name,
                           <<"Error executing tool: ", outcome.result>>, TRUE)
    ELSE ToolResultMessage(tool_call.id, tool_call.name,
                           IF outcome.result # "" THEN <<outcome.result>>
                           ELSE <<"(no output)">>,
                           ~outcome.success)

(***************************************************************************)
(* run_single_turn: locals and the stream state machine (turn.py:228-432)  *)
(***************************************************************************)
TurnLocals(p) ==
    [pc |-> p, attempt_num |-> 0, content |-> <<>>, tool_results |-> <<>>,
     think_buffer |-> <<>>, think_signature |-> None, text_buffer |-> <<>>,
     pending_tool_calls |-> <<>>, current_tool_call |-> NoneOpt,
     tool_arg_chunk_counter |-> 0, tool_arg_token_count |-> 0,
     current_state |-> None, stop_reason |-> "stop", interrupted |-> FALSE,
     finalized_tools |-> <<>>, next_tool |-> 1]

Out(tt, evs) == [t |-> tt, events |-> evs]

\* _finalize_current_state
FinalizeCurrentState(tt, include_empty) ==
    LET full_thinking == Join(tt.think_buffer)
        full_text == Join(tt.text_buffer)
    IN
    IF tt.current_state = "think"
    THEN Out([tt EXCEPT
                !.content = IF include_empty \/ full_thinking # <<>>
                            THEN Append(@, ThinkingContent(full_thinking,
                                                     tt.think_signature))
                            ELSE @,
                !.think_buffer = <<>>,
                !.think_signature = None,
                !.current_state = None],
             IF include_empty \/ full_thinking # <<>>
             THEN <<Ev("thinking_end")>> ELSE <<>>)
    ELSE IF tt.current_state = "text"
    THEN Out([tt EXCEPT
                !.content = IF include_empty \/ full_text # <<>>
                            THEN Append(@, TextContent(full_text)) ELSE @,
                !.text_buffer = <<>>,
                !.current_state = None],
             IF include_empty \/ full_text # <<>>
             THEN <<Ev("text_end")>> ELSE <<>>)
    ELSE IF tt.current_state = "tool_call" /\ tt.current_tool_call # NoneOpt
    THEN Out([tt EXCEPT
                !.pending_tool_calls = Append(@, tt.current_tool_call[1]),
                !.current_tool_call = NoneOpt,
                !.current_state = None], <<>>)
    ELSE Out([tt EXCEPT !.current_state = None], <<>>)

\* the finalization every part kind does first when the block kind changes
LeaveOtherBlock(tt, state) ==
    IF tt.current_state # None /\ tt.current_state # state
    THEN FinalizeCurrentState(tt, TRUE)
    ELSE Out(tt, <<>>)

\* case ThinkPart (turn.py:360-373)
OnThinkPart(tt, part) ==
    LET f == LeaveOtherBlock(tt, "think")
    IN  Out([f.t EXCEPT
               !.current_state = "think",
               !.think_buffer = Append(@, part.delta),
               !.think_signature = IF part.signature # None
                                   THEN part.signature ELSE @],
            f.events
              \o (IF f.t.current_state # "think"
                  THEN <<Ev("thinking_start")>> ELSE <<>>)
              \o <<DeltaEv("thinking_delta", part.delta)>>)

\* mutant: the text-start event is left out when a text block begins
OnTextPart_NoStart(tt, part) ==
    LET f == LeaveOtherBlock(tt, "text")
    IN  Out([f.t EXCEPT
               !.current_state = "text",
               !.text_buffer = Append(@, part.delta)],
            f.events \o <<DeltaEv("text_delta", part.delta)>>)

\* case TextPart (turn.py:375-386)
OnTextPart(tt, part) ==
    LET f == LeaveOtherBlock(tt, "text")
    IN  Out([f.t EXCEPT
               !.current_state = "text",
               !.text_buffer = Append(@, part.delta)],
            f.events
              \o (IF f.t.current_state # "text"
                  THEN <<Ev("text_start")>> ELSE <<>>)
              \o <<DeltaEv("text_delta", part.delta)>>)

\* mutant: the counters of the argument tokens are not reset
OnToolCallStart_NoCounterReset(tt, part) ==
    LET f == IF tt.current_state # None /\ tt.current_state # "tool_call"
             THEN FinalizeCurrentState(tt, TRUE)
             ELSE IF tt.current_state = "tool_call"
                     /\ tt.current_tool_call # NoneOpt
             THEN Out([tt EXCEPT
                         !.pending_tool_calls =
                             Append(@, tt.current_tool_call[1]),
                         !.current_tool_call = NoneOpt], <<>>)
             ELSE Out(tt, <<>>)
    IN  Out([f.t EXCEPT
               !.current_state = "tool_call",
               !.current_tool_call =
                   Some([id |-> part.id, name |-> part.name,
                         arguments |-> <<>>])],
            f.events \o <<ToolEv("tool_start", part.id, part.name)>>)

\* case ToolCallStart (turn.py:388-403)
OnToolCallStart(tt, part) ==
    LET f == IF tt.current_state # None /\ tt.current_state # "tool_call"
             THEN FinalizeCurrentState(tt, TRUE)
             ELSE IF tt.current_state = "tool_call"
                     /\ tt.current_tool_call # NoneOpt
             THEN Out([tt EXCEPT
                         !.pending_tool_calls =
                             Append(@, tt.current_tool_call[1]),
                         !.current_tool_call = NoneOpt], <<>>)
             ELSE Out(tt, <<>>)
    IN  Out([f.t EXCEPT
               !.tool_arg_chunk_counter = 0,
               !.tool_arg_token_count = 0,
               !.current_state = "tool_call",
               !.current_tool_call =
                   Some([id |-> part.id, name |-> part.name,
                         arguments |-> <<>>])],
            f.events \o <<ToolEv("tool_start", part.id, part.name)>>)

\* case ToolCallDelta (turn.py:405-422)
OnToolCallDelta(tt, part) ==
    IF tt.current_tool_call = NoneOpt THEN Out(tt, <<>>)
    ELSE
    LET cur == tt.current_tool_call[1]
        counter == tt.tool_arg_chunk_counter + 1
        count == tt.tool_arg_token_count + CountTokens(part.delta)
    IN  Out([tt EXCEPT
               !.current_tool_call =
                   Some([cur EXCEPT !.arguments = @ \o part.delta]),
               !.tool_arg_chunk_counter = counter,
               !.tool_arg_token_count = count],
            <<ToolArgsDeltaEvent(cur.id, part.delta)>>
              \o (IF count > TOOL_ARGS_TOKEN_DISPLAY_THRESHOLD
                     /\ counter % TOOL_ARGS_TOKEN_CHUNK_UPDATE_INTERVAL = 0
                  THEN <<TokenUpdateEvent(cur.id, cur.name, count)>>
                  ELSE <<>>))

\* case StreamDone (turn.py:424-428): the chunk loop goes on
OnStreamDone(tt, part) ==
    FinalizeCurrentState([tt EXCEPT !.stop_reason = part.stop_reason], TRUE)

\* case StreamError (turn.py:430-432): the chunk loop goes on
OnStreamError(tt, part) ==
    Out([tt EXCEPT !.stop_reason = "error"], <<ErrorEvent(part.error)>>)

\* match chunk (turn.py:359-432)
OnChunk(tt, part) ==
    CASE part.kind = "think" -> OnThinkPart(tt, part)
      [] part.kind = "text" -> OnTextPart(tt, part)
      [] part.kind = "tool_call_start" -> OnToolCallStart(tt, part)
      [] part.kind = "tool_call_delta" -> OnToolCallDelta(tt, part)
      [] part.kind = "stream_done" -> OnStreamDone(tt, part)
      [] part.kind = "stream_error" -> OnStreamError(tt, part)

\* mutant: the stop reason is left as the stream set it
PromoteStopReason_Never(tt) == tt

\* "if pending_tool_calls and stop_reason == StopReason.STOP"
PromoteStopReason(tt) ==
    IF tt.pending_tool_calls # <<>> /\ tt.stop_reason = "stop"
    THEN [tt EXCEPT !.stop_reason = "tool_use"] ELSE tt

\* mutant: the timeout is armed only while a tool-call is being streamed
ChunkTimeoutArmed_OnlyInToolCall(tt, timeout) ==
    /\ GetToolCallIdleTimeoutSeconds(timeout) # NoneOpt
    /\ tt.current_state = "tool_call"

\* chunk_timeout is not None (turn.py:285-292)
ChunkTimeoutArmed(tt, timeout) ==
    /\ GetToolCallIdleTimeoutSeconds(timeout) # NoneOpt
    /\ (tt.current_state = "tool_call" \/ tt.pending_tool_calls # <<>>)

\* the stream is exhausted (turn.py:352-357)
OnStreamExhausted(tt) ==
    LET f == FinalizeCurrentState(tt, TRUE)
    IN  Out(PromoteStopReason(f.t), f.events)

\* mutant: the idle timeout leaves the loop without finalizing
OnIdleTimeout_NoFinalize(tt, timeout_secs) ==
    Out(PromoteStopReason(tt), <<WarningEvent(timeout_secs)>>)

\* the idle timeout fires (turn.py:301-319, 333-348)
OnIdleTimeout(tt, timeout_secs) ==
    LET f == FinalizeCurrentState(tt, FALSE)
    IN  Out(PromoteStopReason(f.t), <<WarningEvent(timeout_secs)>> \o f.events)

\* mutant: the stop reason is left as the stream set it
OnCancelled_KeepsStopReason(tt) == [tt EXCEPT !.interrupted = TRUE]

\* cancellation observed by the chunk loop (turn.py:279-282, 321-327)
OnCancelled(tt) ==
    [tt EXCEPT !.interrupted = TRUE, !.stop_reason = "interrupted"]

ToolEndEventOf(pending) ==
    ToolEv("tool_end", pending.tool_call.id, pending.tool_call.name)
ToolCallOf(pending) == pending.tool_call

\* mutant: the queue is walked from its end
Reverse(seq) == [i \in 1..Len(seq) |-> seq[Len(seq) + 1 - i]]
AfterChunkLoop_Reversed(tt) ==
    LET f == IF tt.interrupted THEN FinalizeCurrentState(tt, FALSE)
             ELSE Out(tt, <<>>)
        finalized == Reverse(SeqMap(FinalizeToolCallData,
                                    f.t.pending_tool_calls))
    IN  Out([f.t EXCEPT
               !.finalized_tools = finalized,
               !.content = @ \o SeqMap(ToolCallOf, finalized)],
            f.events \o SeqMap(ToolEndEventOf, finalized))

\* mutant: the tool-call parts are put in front of the content
AfterChunkLoop_ToolCallsFirst(tt) ==
    LET f == IF tt.interrupted THEN FinalizeCurrentState(tt, FALSE)
             ELSE Out(tt, <<>>)
        finalized == SeqMap(FinalizeToolCallData, f.t.pending_tool_calls)
    IN  Out([f.t EXCEPT
               !.finalized_tools = finalized,
               !.content = SeqMap(ToolCallOf, finalized) \o @],
            f.events \o SeqMap(ToolEndEventOf, finalized))

\* after the chunk loop: interrupt cleanup, then every tool-end
\* (turn.py:440-459)
AfterChunkLoop(tt) ==
    LET f == IF tt.interrupted THEN FinalizeCurrentState(tt, FALSE)
             ELSE Out(tt, <<>>)
        finalized == SeqMap(FinalizeToolCallData, f.t.pending_tool_calls)
    IN  Out([f.t EXCEPT
               !.finalized_tools = finalized,
               !.content = @ \o SeqMap(ToolCallOf, finalized)],
            f.events \o SeqMap(ToolEndEventOf, finalized))

(***************************************************************************)
(* Agent.run is not running                                                *)
(***************************************************************************)
ZeroUsage == Usage(0, 0, 0, 0)
IdleTurn == TurnLocals("none")
IdleRun == [turn |-> 0, stop_reason |-> "stop", was_interrupted |-> FALSE,
            usage |-> ZeroUsage, tokens_before |-> 0]
\* Kon.__init__: no agent run and no /compact worker in flight
IdleUi == [is_running |-> FALSE, compacting |-> FALSE]
IdleObs == [opens |-> 0, failures |-> 0, attempts |-> <<>>,
            executed |-> <<>>, consumed |-> 0,
            raised |-> FALSE, done |-> None]
Config(max_turns, on_overflow, timeout, stream_usage) ==
    [max_turns |-> max_turns, on_overflow |-> on_overflow,
     tool_call_idle_timeout_seconds |-> timeout,
     stream_usage |-> stream_usage,
     context_window |-> 200000, max_output_tokens |-> 0,
     buffer_tokens |-> 20000]
IdleCfg == Config(1, "continue", 60, NoneOpt)

(***************************************************************************)
(* SessionSpec: a session made by Session.create, driven by its callers    *)
(***************************************************************************)
SessionMessages ==
    { UserMessage("hi"),
      AssistantMessage(<<TextContent(<<"x">>)>>, Some(Usage(10, 5, 0, 0)),
                       "stop"),
      ToolResultMessage("call-1", "read", <<"ok">>, FALSE) }
ThinkingLevels == {"medium", "high"}
Models == { <<"openai", "gpt-4", None>>, <<"local", "qwen", "http://l">> }
SessionNames == {"My Session"}

SessionInit ==
    /\ \E persist \in BOOLEAN, m \in {<<None, None>>, <<"openai", "gpt-4">>},
          level \in ThinkingLevels :
         session = SessionCreate("/proj", persist, m[1], m[2], level)
    /\ disk = NoFile
    /\ rng = 1
    /\ cfg = IdleCfg
    /\ cancel = FALSE
    /\ pc = "idle"
    /\ run = IdleRun
    /\ t = IdleTurn
    /\ events = <<>>
    /\ obs = IdleObs
    /\ ui = IdleUi

CanAppend ==
    /\ Len(session.entries) < MaxEntries
    /\ CanGenerateEntryId(session, rng)

\* the session, the disk and the tape after an append
Commit(res) ==
    /\ session' = res.s
    /\ disk' = res.d
    /\ rng' = RngAfter(session, rng)

CallAppendMessage ==
    /\ CanAppend
    /\ \E m \in SessionMessages : Commit(AppendMessage(session, disk, rng, m))
    /\ UNCHANGED agentVars

CallAppendThinkingLevelChange ==
    /\ CanAppend
    /\ \E l \in ThinkingLevels :
         Commit(AppendThinkingLevelChange(session, disk, rng, l))
    /\ UNCHANGED agentVars

CallAppendModelChange ==
    /\ CanAppend
    /\ \E m \in Models :
         Commit(AppendModelChange(session, disk, rng, m[1], m[2], m[3]))
    /\ UNCHANGED agentVars

Summaries == {"summary", "summary 2"}

CallAppendCompaction ==
    /\ CanAppend
    /\ \E summary \in Summaries :
         Commit(AppendCompaction(session, disk, rng, summary,
                                 IF session.leaf_id = None THEN ""
                                 ELSE session.leaf_id, 1000))
    /\ UNCHANGED agentVars

CallAppendCustomMessage ==
    /\ CanAppend
    /\ Commit(AppendCustomMessage(session, disk, rng, "error", "oops", TRUE))
    /\ UNCHANGED agentVars

CallAppendSessionInfo ==
    /\ CanAppend
    /\ \E n \in SessionNames :
         Commit(AppendSessionInfo(session, disk, rng, n))
    /\ UNCHANGED agentVars

CallSetModel ==
    /\ CanAppend
    /\ \E m \in Models :
         IF SetModelAppends(session, m[1], m[2], m[3])
         THEN Commit(AppendModelChange(session, disk, rng, m[1], m[2], m[3]))
         ELSE UNCHANGED <<session, disk, rng>>
    /\ UNCHANGED agentVars

CallSetThinkingLevel ==
    /\ CanAppend
    /\ \E l \in ThinkingLevels :
         IF SetThinkingLevelAppends(session, l)
         THEN Commit(AppendThinkingLevelChange(session, disk, rng, l))
         ELSE UNCHANGED <<session, disk, rng>>
    /\ UNCHANGED agentVars

\* the session is dropped and resumed from its file (Session.load)
CallLoad ==
    /\ Load(disk).ok
    /\ session' = Load(disk).session
    /\ UNCHANGED <<disk, rng>>
    /\ UNCHANGED agentVars

SessionNext ==
    \/ CallAppendMessage
    \/ CallAppendThinkingLevelChange
    \/ CallAppendModelChange
    \/ CallAppendCompaction
    \/ CallAppendCustomMessage
    \/ CallAppendSessionInfo
    \/ CallSetModel
    \/ CallSetThinkingLevel
    \/ CallLoad

SessionSpec == SessionInit /\ [][SessionNext]_vars


(***************************************************************************)
(* Agent.run (loop.py:119-278) driving run_single_turn (turn.py:187-488)   *)
(*                                                                         *)
(* An action runs from one suspension point (a yield or an await) to the   *)
(* next; the cancellation signal can be set at the suspension points.      *)
(* Positions "chunk_top", "post_loop" and "loop_exit" are inside such a    *)
(* stretch.  The signal is never cleared during a run (ui/app.py:594).     *)
(***************************************************************************)
UsageSmall == Usage(10, 5, 2, 0)
UsageBig == Usage(190000, 5000, 2, 0)
ContinueMessage == UserMessage("Continue if you have next steps, ...")

Last(seq) == seq[Len(seq)]

\* is_overflow (core/compaction.py)
IsOverflow(usage, context_window, max_output, buffer_tokens) ==
    usage.input_tokens + usage.output_tokens + max_output + buffer_tokens
        >= context_window

\* Agent._add_usage
AddUsage(total, usage) ==
    IF usage = NoneOpt THEN total
    ELSE Usage(total.input_tokens + usage[1].input_tokens,
               total.output_tokens + usage[1].output_tokens,
               total.cache_read_tokens + usage[1].cache_read_tokens,
               total.cache_write_tokens + usage[1].cache_write_tokens)

\* session.append_message for each message of a list, in order
RECURSIVE AppendMessages(_, _, _, _)
AppendMessages(s, d, r, messages) ==
    IF messages = <<>> THEN [s |-> s, d |-> d, r |-> r]
    ELSE LET res == AppendMessage(s, d, r, Head(messages))
         IN  AppendMessages(res.s, res.d, RngAfter(s, r), Tail(messages))

\* the usage of the last assistant message entry (loop.py:221-226)
RECURSIVE LastAssistantUsage(_)
LastAssistantUsage(entries) ==
    IF entries = <<>> THEN NoneOpt
    ELSE IF Last(entries).type = "message"
            /\ Last(entries).message.role = "assistant"
         THEN Last(entries).message.usage
         ELSE LastAssistantUsage(SubSeq(entries, 1, Len(entries) - 1))

\* mutant: the overflow check does not look at the cancellation signal
CompactionStarts_IgnoresCancel(s, c, stop_reason, cancelled) ==
    /\ stop_reason # "error"
    /\ LastAssistantUsage(s.entries) # NoneOpt
    /\ IsOverflow(LastAssistantUsage(s.entries)[1], c.context_window,
                  c.max_output_tokens, c.buffer_tokens)

\* _check_compaction reaches "yield CompactionStartEvent()" (loop.py:218-249)
CompactionStarts(s, c, stop_reason, cancelled) ==
    /\ stop_reason # "error"
    /\ LastAssistantUsage(s.entries) # NoneOpt
    /\ IsOverflow(LastAssistantUsage(s.entries)[1], c.context_window,
                  c.max_output_tokens, c.buffer_tokens)
    /\ ~cancelled

TokensBefore(usage) ==
    usage.input_tokens + usage.output_tokens + usage.cache_read_tokens
        + usage.cache_write_tokens

Configs ==
    { Config(m, o[1], tm, o[2]) :
        m \in 0..MaxTurns, tm \in {60},
        o \in { <<"continue", NoneOpt>>, <<"continue", Some(UsageSmall)>>,
                <<"continue", Some(UsageBig)>>, <<"pause", Some(UsageBig)>> } }

TurnConfigs ==
    { Config(1, o[1], tm, o[2]) :
        tm \in {-1, 0, 60},
        o \in { <<"continue", NoneOpt>>, <<"pause", Some(UsageSmall)>>,
                <<"continue", Some(UsageBig)>> } }

InitWith(configs) ==
    /\ session = SessionCreate("/proj", TRUE, None, None, "medium")
    /\ disk = NoFile
    /\ rng = 1
    /\ cfg \in configs
    /\ cancel = FALSE
    /\ pc = "idle"
    /\ run = IdleRun
    /\ t = IdleTurn
    /\ events = <<>>
    /\ obs = IdleObs
    /\ ui = IdleUi

Init == InitWith(Configs)
TurnInit == InitWith(TurnConfigs)

Emit(evs) == events' = events \o evs

\* Agent.run up to "yield AgentStartEvent()" (loop.py:125-141)
Run ==
    /\ pc = "idle"
    /\ Commit(AppendMessage(session, disk, rng, UserMessage("query")))
    /\ Emit(<<Ev("agent_start")>>)
    /\ run' = IdleRun
    /\ pc' = "loop_top"
    /\ UNCHANGED <<cfg, ui, cancel, t, obs>>

\* mutant: the turn counter is not advanced
LoopTop_TurnNotCounted ==
    /\ pc = "loop_top"
    /\ IF run.turn < cfg.max_turns
       THEN IF cancel
            THEN /\ run' = [run EXCEPT !.was_interrupted = TRUE,
                                       !.stop_reason = "interrupted"]
                 /\ Emit(<<InterruptedEvent>>)
                 /\ pc' = "loop_exit"
                 /\ UNCHANGED <<t, obs>>
            ELSE /\ Emit(<<TurnStartEvent(run.turn + 1)>>)
                 /\ pc' = "turn"
                 /\ t' = TurnLocals("entry")
                 /\ obs' = [obs EXCEPT !.opens = 0, !.attempts = <<>>,
                                            !.executed = <<>>, !.done = None]
                 /\ UNCHANGED run
       ELSE /\ pc' = "loop_exit"
            /\ UNCHANGED <<run, events, t, obs>>
    /\ UNCHANGED <<session, disk, rng, cfg, ui, cancel>>

\* mutant: the loop head does not look at the cancellation signal
LoopTop_NoCancelCheck ==
    /\ pc = "loop_top"
    /\ IF run.turn < cfg.max_turns
       THEN /\ run' = [run EXCEPT !.turn = @ + 1]
            /\ Emit(<<TurnStartEvent(run.turn + 1)>>)
            /\ pc' = "turn"
            /\ t' = TurnLocals("entry")
            /\ obs' = [obs EXCEPT !.opens = 0, !.attempts = <<>>,
                                            !.executed = <<>>, !.done = None]
       ELSE /\ pc' = "loop_exit"
            /\ UNCHANGED <<run, events, t, obs>>
    /\ UNCHANGED <<session, disk, rng, cfg, ui, cancel>>

\* mutant: the loop goes on whatever max_turns says
LoopTop_NoTurnLimit ==
    /\ pc = "loop_top"
    /\ IF cancel
       THEN /\ run' = [run EXCEPT !.was_interrupted = TRUE,
                                  !.stop_reason = "interrupted"]
            /\ Emit(<<InterruptedEvent>>)
            /\ pc' = "loop_exit"
            /\ UNCHANGED <<t, obs>>
       ELSE /\ run' = [run EXCEPT !.turn = @ + 1]
            /\ Emit(<<TurnStartEvent(run.turn + 1)>>)
            /\ pc' = "turn"
            /\ t' = TurnLocals("entry")
            /\ obs' = [obs EXCEPT !.opens = 0, !.attempts = <<>>,
                                       !.executed = <<>>, !.done = None]
    /\ UNCHANGED <<session, disk, rng, cfg, ui, cancel>>

\* the head of the while loop (loop.py:149-157)
LoopTop ==
    /\ pc = "loop_top"
    /\ IF run.turn < cfg.max_turns
       THEN IF cancel
            THEN /\ run' = [run EXCEPT !.was_interrupted = TRUE,
                                       !.stop_reason = "interrupted"]
                 /\ Emit(<<InterruptedEvent>>)
                 /\ pc' = "loop_exit"
                 /\ UNCHANGED <<t, obs>>
            ELSE /\ run' = [run EXCEPT !.turn = @ + 1]
                 /\ Emit(<<TurnStartEvent(run.turn + 1)>>)
                 /\ pc' = "turn"
                 /\ t' = TurnLocals("entry")
                 /\ obs' = [obs EXCEPT !.opens = 0, !.attempts = <<>>,
                                            !.executed = <<>>, !.done = None]
       ELSE /\ pc' = "loop_exit"
            /\ UNCHANGED <<run, events, t, obs>>
    /\ UNCHANGED <<session, disk, rng, cfg, ui, cancel>>

\* mutant: the executor opens the stream whatever the signal says
TurnEntry_NoPreCancel ==
    /\ pc = "turn" /\ t.pc = "entry"
    /\ t' = [t EXCEPT !.pc = "open"]
    /\ UNCHANGED <<session, disk, rng, cfg, ui, cancel, pc, obs, events, run>>

\* run_single_turn up to the first stream opening (turn.py:196-210)
TurnEntry ==
    /\ pc = "turn" /\ t.pc = "entry"
    /\ IF cancel
       THEN /\ Emit(<<InterruptedEvent,
                      TurnEndEvent(run.turn, NoneOpt, <<>>, "interrupted")>>)
            /\ run' = [run EXCEPT !.was_interrupted = TRUE]
            /\ t' = [t EXCEPT !.pc = "ended"]
       ELSE /\ t' = [t EXCEPT !.pc = "open"]
            /\ UNCHANGED <<events, run>>
    /\ UNCHANGED <<session, disk, rng, cfg, ui, cancel, pc, obs>>

\* provider.stream returns a stream (turn.py:210-211)
StreamOpenOk ==
    /\ pc = "turn" /\ t.pc = "open"
    /\ obs' = [obs EXCEPT !.opens = @ + 1, !.attempts = Append(@, "ok")]
    /\ t' = [t EXCEPT !.pc = "chunk_top"]
    /\ UNCHANGED <<session, disk, rng, cfg, ui, cancel, pc, run, events>>

\* mutant: a failed opening is retried whatever the provider says of the error
StreamOpenFail_AlwaysRetries ==
    /\ pc = "turn" /\ t.pc = "open"
    /\ obs.failures < Len(RetryDelays) + 1
    /\ \E e \in OpenErrors :
         /\ obs' = [obs EXCEPT
                      !.opens = @ + 1, !.failures = @ + 1,
                      !.attempts = Append(@, IF ShouldRetryForError(e)
                                             THEN "retryable" ELSE "fatal")]
         /\ IF t.attempt_num + 1 <= Len(RetryDelays)
            THEN /\ Emit(<<RetryEvent(t.attempt_num + 1, Len(RetryDelays),
                                      RetryDelays[t.attempt_num + 1],
                                      e.message)>>)
                 /\ t' = [t EXCEPT !.pc = "sleep"]
            ELSE /\ Emit(<<ErrorEvent(e.message),
                           TurnEndEvent(run.turn, NoneOpt, <<>>, "error")>>)
                 /\ t' = [t EXCEPT !.pc = "ended"]
    /\ UNCHANGED <<session, disk, rng, cfg, ui, cancel, pc, run>>

\* provider.stream raises (turn.py:212-223)
StreamOpenFail ==
    /\ pc = "turn" /\ t.pc = "open"
    /\ obs.failures < Len(RetryDelays) + 1
    /\ \E e \in OpenErrors :
         /\ obs' = [obs EXCEPT
                      !.opens = @ + 1, !.failures = @ + 1,
                      !.attempts = Append(@, IF ShouldRetryForError(e)
                                             THEN "retryable" ELSE "fatal")]
         /\ IF ShouldRetryForError(e) /\ t.attempt_num + 1 <= Len(RetryDelays)
            THEN /\ Emit(<<RetryEvent(t.attempt_num + 1, Len(RetryDelays),
                                      RetryDelays[t.attempt_num + 1],
                                      e.message)>>)
                 /\ t' = [t EXCEPT !.pc = "sleep"]
            ELSE /\ Emit(<<ErrorEvent(e.message),
                           TurnEndEvent(run.turn, NoneOpt, <<>>, "error")>>)
                 /\ t' = [t EXCEPT !.pc = "ended"]
    /\ UNCHANGED <<session, disk, rng, cfg, ui, cancel, pc, run>>

\* mutant: the next attempt keeps the number of the one before
RetrySleepDone_NoAdvance ==
    /\ pc = "turn" /\ t.pc = "sleep"
    /\ t' = [t EXCEPT !.pc = "open"]
    /\ UNCHANGED <<session, disk, rng, cfg, ui, cancel, pc, run, events, obs>>

\* asyncio.sleep(delay) returns (turn.py:217-218)
RetrySleepDone ==
    /\ pc = "turn" /\ t.pc = "sleep"
    /\ t' = [t EXCEPT !.pc = "open", !.attempt_num = @ + 1]
    /\ UNCHANGED <<session, disk, rng, cfg, ui, cancel, pc, run, events, obs>>

\* the head of the chunk loop (turn.py:278-284)
ChunkLoopTop ==
    /\ pc = "turn" /\ t.pc = "chunk_top"
    /\ t' = IF cancel THEN [OnCancelled(t) EXCEPT !.pc = "post_loop"]
            ELSE [t EXCEPT !.pc = "await_chunk"]
    /\ UNCHANGED <<session, disk, rng, cfg, ui, cancel, pc, run, events, obs>>

\* the fetch wins the race and yields a part (turn.py:329, 359-432)
ChunkArrive(parts, budget) ==
    /\ pc = "turn" /\ t.pc = "await_chunk"
    /\ ~cancel
    /\ obs.consumed + obs.failures < budget
    /\ \E part \in parts :
         LET o == OnChunk(t, part)
         IN  /\ t' = [o.t EXCEPT !.pc = "chunk_top"]
             /\ Emit(o.events)
             /\ obs' = [obs EXCEPT
                          !.consumed = @ + 1,
                          !.done = IF @ = None /\ part.kind = "stream_done"
                                   THEN part.stop_reason ELSE @]
    /\ UNCHANGED <<session, disk, rng, cfg, ui, cancel, pc, run>>

\* the cancellation waiter wins the race (turn.py:321-327)
ChunkCancelled ==
    /\ pc = "turn" /\ t.pc = "await_chunk"
    /\ cancel
    /\ t' = [OnCancelled(t) EXCEPT !.pc = "post_loop"]
    /\ UNCHANGED <<session, disk, rng, cfg, ui, cancel, pc, run, events, obs>>

\* neither finishes within chunk_timeout (turn.py:301-319, 333-348)
ChunkTimeout ==
    /\ pc = "turn" /\ t.pc = "await_chunk"
    /\ ~cancel
    /\ ChunkTimeoutArmed(t, cfg.tool_call_idle_timeout_seconds)
    /\ LET o == OnIdleTimeout(t, GetToolCallIdleTimeoutSeconds(
                                     cfg.tool_call_idle_timeout_seconds)[1])
       IN  /\ t' = [o.t EXCEPT !.pc = "post_loop"]
           /\ Emit(o.events)
    /\ UNCHANGED <<session, disk, rng, cfg, ui, cancel, pc, run, obs>>

\* the fetch returns _STREAM_EXHAUSTED (turn.py:352-357)
StreamExhausted ==
    /\ pc = "turn" /\ t.pc = "await_chunk"
    /\ ~cancel
    /\ LET o == OnStreamExhausted(t)
       IN  /\ t' = [o.t EXCEPT !.pc = "post_loop"]
           /\ Emit(o.events)
    /\ UNCHANGED <<session, disk, rng, cfg, ui, cancel, pc, run, obs>>

\* interrupt cleanup and the tool-end events (turn.py:440-459)
EmitToolEnds ==
    /\ pc = "turn" /\ t.pc = "post_loop"
    /\ LET o == AfterChunkLoop(t)
       IN  /\ t' = [o.t EXCEPT !.pc = "tools"]
           /\ Emit(o.events)
    /\ UNCHANGED <<session, disk, rng, cfg, ui, cancel, pc, run, obs>>

\* mutant: queued tool-calls are executed whatever the signal says
ToolDispatch_IgnoresCancel ==
    /\ pc = "turn" /\ t.pc = "tools"
    /\ t.next_tool <= Len(t.finalized_tools)
    /\ t' = [t EXCEPT !.pc = "executing"]
    /\ obs' = [obs EXCEPT
                 !.executed =
                     Append(@, t.finalized_tools[t.next_tool].tool_call.id)]
    /\ UNCHANGED <<session, disk, rng, cfg, ui, cancel, pc, run, events>>

\* the next queued tool-call: skipped, or _execute_tool is entered
\* (turn.py:462-471)
ToolDispatch ==
    /\ pc = "turn" /\ t.pc = "tools"
    /\ t.next_tool <= Len(t.finalized_tools)
    /\ LET pending == t.finalized_tools[t.next_tool]
       IN  IF cancel
           THEN LET result == CreateSkippedToolResult(pending.tool_call)
                IN  /\ t' = [t EXCEPT !.tool_results = Append(@, result),
                                      !.next_tool = @ + 1]
                    /\ Emit(<<ToolResultEvent(result)>>)
                    /\ UNCHANGED obs
           ELSE /\ t' = [t EXCEPT !.pc = "executing"]
                /\ obs' = [obs EXCEPT
                             !.executed = Append(@, pending.tool_call.id)]
                /\ UNCHANGED events
    /\ UNCHANGED <<session, disk, rng, cfg, ui, cancel, pc, run>>

\* mutant: a tool-result that is an error ends the execution of the queue
ToolReturn_AbortsOnError ==
    /\ pc = "turn" /\ t.pc = "executing"
    /\ LET pending == t.finalized_tools[t.next_tool]
           reached == pending.tool # None
                        /\ ParamsOk(pending.tool_call.arguments)
       IN  \E outcome \in ToolOutcomes :
             /\ reached \/ outcome.kind = "raise"
             /\ LET result == ExecuteTool(pending.tool_call, pending.tool,
                                          outcome)
                IN  /\ t' = [t EXCEPT !.tool_results = Append(@, result),
                                      !.next_tool =
                                          IF result.is_error
                                          THEN Len(t.finalized_tools) + 1
                                          ELSE @ + 1,
                                      !.pc = "tools"]
                    /\ Emit(<<ToolResultEvent(result)>>)
    /\ UNCHANGED <<session, disk, rng, cfg, ui, cancel, pc, run, obs>>

\* _execute_tool returns (turn.py:471-475)
ToolReturn ==
    /\ pc = "turn" /\ t.pc = "executing"
    /\ LET pending == t.finalized_tools[t.next_tool]
           reached == pending.tool # None
                        /\ ParamsOk(pending.tool_call.arguments)
       IN  \E outcome \in ToolOutcomes :
             /\ reached \/ outcome.kind = "raise"
             /\ LET result == ExecuteTool(pending.tool_call, pending.tool,
                                          outcome)
                IN  /\ t' = [t EXCEPT !.tool_results = Append(@, result),
                                      !.next_tool = @ + 1,
                                      !.pc = "tools"]
                    /\ Emit(<<ToolResultEvent(result)>>)
    /\ UNCHANGED <<session, disk, rng, cfg, ui, cancel, pc, run, obs>>

\* the end of run_single_turn (turn.py:477-488); the loop notes the
\* interrupted event (loop.py:179-180)
TurnEnd ==
    /\ pc = "turn" /\ t.pc = "tools"
    /\ t.next_tool > Len(t.finalized_tools)
    /\ Emit((IF t.interrupted THEN <<InterruptedEvent>> ELSE <<>>)
            \o <<TurnEndEvent(run.turn,
                              Some(AssistantMessage(t.content,
                                                    cfg.stream_usage,
                                                    t.stop_reason)),
                              t.tool_results, t.stop_reason)>>)
    /\ run' = [run EXCEPT !.was_interrupted = @ \/ t.interrupted]
    /\ t' = [t EXCEPT !.pc = "ended"]
    /\ UNCHANGED <<session, disk, rng, cfg, ui, cancel, pc, obs>>

\* mutant: a message is appended also when the turn-end carries none
LoopOnTurnEnd_NoMessageCheck ==
    /\ pc = "turn" /\ t.pc = "ended"
    /\ LET e == Last(events)
           res == AppendMessages(session, disk, rng,
                                 (IF e.assistant_message = NoneOpt
                                  THEN <<AssistantMessage(<<>>, NoneOpt,
                                                          e.stop_reason)>>
                                  ELSE e.assistant_message)
                                     \o e.tool_results)
           stop_reason == e.stop_reason
           usage == IF e.assistant_message # NoneOpt
                    THEN AddUsage(run.usage, e.assistant_message[1].usage)
                    ELSE run.usage
       IN  /\ session' = res.s
           /\ disk' = res.d
           /\ rng' = res.r
           /\ IF run.was_interrupted \/ stop_reason = "interrupted"
              THEN /\ run' = [run EXCEPT !.usage = usage,
                                         !.stop_reason = "interrupted"]
                   /\ pc' = "loop_exit"
                   /\ UNCHANGED events
              ELSE IF CompactionStarts(res.s, cfg, stop_reason, cancel)
              THEN /\ run' = [run EXCEPT
                                !.usage = usage,
                                !.stop_reason = stop_reason,
                                !.tokens_before =
                                    TokensBefore(
                                        LastAssistantUsage(res.s.entries)[1])]
                   /\ Emit(<<Ev("compaction_start")>>)
                   /\ pc' = "compacting"
              ELSE /\ run' = [run EXCEPT !.usage = usage,
                                         !.stop_reason = stop_reason]
                   /\ pc' = IF stop_reason # "tool_use" THEN "loop_exit"
                            ELSE "loop_top"
                   /\ UNCHANGED events
    /\ t' = IdleTurn
    /\ UNCHANGED <<cfg, ui, cancel, obs>>

\* the loop takes the turn-end event and decides what is next
\* (loop.py:171-204, 215-249)
LoopOnTurnEnd ==
    /\ pc = "turn" /\ t.pc = "ended"
    /\ LET e == Last(events)
           res == AppendMessages(session, disk, rng,
                                 e.assistant_message \o e.tool_results)
           stop_reason == e.stop_reason
           usage == IF e.assistant_message # NoneOpt
                    THEN AddUsage(run.usage, e.assistant_message[1].usage)
                    ELSE run.usage
       IN  /\ session' = res.s
           /\ disk' = res.d
           /\ rng' = res.r
           /\ IF run.was_interrupted \/ stop_reason = "interrupted"
              THEN /\ run' = [run EXCEPT !.usage = usage,
                                         !.stop_reason = "interrupted"]
                   /\ pc' = "loop_exit"
                   /\ UNCHANGED events
              ELSE IF CompactionStarts(res.s, cfg, stop_reason, cancel)
              THEN /\ run' = [run EXCEPT
                                !.usage = usage,
                                !.stop_reason = stop_reason,
                                !.tokens_before =
                                    TokensBefore(
                                        LastAssistantUsage(res.s.entries)[1])]
                   /\ Emit(<<Ev("compaction_start")>>)
                   /\ pc' = "compacting"
              ELSE /\ run' = [run EXCEPT !.usage = usage,
                                         !.stop_reason = stop_reason]
                   /\ pc' = IF stop_reason # "tool_use" THEN "loop_exit"
                            ELSE "loop_top"
                   /\ UNCHANGED events
    /\ t' = IdleTurn
    /\ UNCHANGED <<cfg, ui, cancel, obs>>

\* mutant: the loop goes on after a compaction in either overflow mode
AfterCompaction_AlwaysContinues == "loop_top"

\* what follows "did_compact = True" (loop.py:197-201)
AfterCompaction == IF cfg.on_overflow = "pause" THEN "loop_exit" ELSE "loop_top"

\* mutant: the compaction entry names the first entry as the first kept
SummaryOk_KeepsFirst ==
    /\ pc = "compacting"
    /\ LET c == AppendCompaction(session, disk, rng, "summary",
                                 session.entries[1].id,
                                 run.tokens_before)
           r1 == RngAfter(session, rng)
           res == IF cfg.on_overflow = "continue"
                  THEN AppendMessages(c.s, c.d, r1, <<ContinueMessage>>)
                  ELSE [s |-> c.s, d |-> c.d, r |-> r1]
       IN  /\ session' = res.s
           /\ disk' = res.d
           /\ rng' = res.r
    /\ Emit(<<CompactionEndEvent(run.tokens_before, FALSE)>>)
    /\ pc' = AfterCompaction
    /\ UNCHANGED <<cfg, ui, cancel, run, t, obs>>

\* generate_summary returns (loop.py:253-275)
SummaryOk ==
    /\ pc = "compacting"
    /\ LET c == AppendCompaction(session, disk, rng, "summary",
                                 IF session.leaf_id # None
                                 THEN session.leaf_id ELSE "",
                                 run.tokens_before)
           r1 == RngAfter(session, rng)
           res == IF cfg.on_overflow = "continue"
                  THEN AppendMessages(c.s, c.d, r1, <<ContinueMessage>>)
                  ELSE [s |-> c.s, d |-> c.d, r |-> r1]
       IN  /\ session' = res.s
           /\ disk' = res.d
           /\ rng' = res.r
    /\ Emit(<<CompactionEndEvent(run.tokens_before, FALSE)>>)
    /\ pc' = AfterCompaction
    /\ UNCHANGED <<cfg, ui, cancel, run, t, obs>>

\* mutant: the compaction entry is appended although the summary failed
SummaryFail_AppendsCompaction ==
    /\ pc = "compacting"
    /\ Commit(AppendCompaction(session, disk, rng, "",
                               IF session.leaf_id # None
                               THEN session.leaf_id ELSE "",
                               run.tokens_before))
    /\ Emit(<<CompactionEndEvent(run.tokens_before, TRUE)>>)
    /\ pc' = AfterCompaction
    /\ UNCHANGED <<cfg, ui, cancel, run, t, obs>>

\* generate_summary raises (loop.py:277-278)
SummaryFail ==
    /\ pc = "compacting"
    /\ Emit(<<CompactionEndEvent(run.tokens_before, TRUE)>>)
    /\ pc' = AfterCompaction
    /\ UNCHANGED <<session, disk, rng, cfg, ui, cancel, run, t, obs>>

\* mutant: LENGTH is reported at max_turns also after an interruption
LoopExit_LengthOverwrites ==
    /\ pc = "loop_exit"
    /\ LET stop_reason == IF run.turn >= cfg.max_turns
                          THEN "length" ELSE run.stop_reason
       IN  /\ run' = [run EXCEPT !.stop_reason = stop_reason]
           /\ Emit(<<AgentEndEvent(stop_reason, run.turn, run.usage)>>)
    /\ pc' = "done"
    /\ UNCHANGED <<session, disk, rng, cfg, ui, cancel, t, obs>>

\* mutant: the stop reason is not promoted at max_turns
LoopExit_NoLengthPromotion ==
    /\ pc = "loop_exit"
    /\ Emit(<<AgentEndEvent(run.stop_reason, run.turn, run.usage)>>)
    /\ pc' = "done"
    /\ UNCHANGED <<session, disk, rng, cfg, ui, cancel, run, t, obs>>

\* after the while loop (loop.py:206-213)
LoopExit ==
    /\ pc = "loop_exit"
    /\ LET stop_reason == IF run.turn >= cfg.max_turns /\ ~run.was_interrupted
                          THEN "length" ELSE run.stop_reason
       IN  /\ run' = [run EXCEPT !.stop_reason = stop_reason]
           /\ Emit(<<AgentEndEvent(stop_reason, run.turn, run.usage)>>)
    /\ pc' = "done"
    /\ UNCHANGED <<session, disk, rng, cfg, ui, cancel, t, obs>>

\* mutant: the exception is not caught and the generator just ends
StreamRaise_Propagates ==
    /\ pc = "turn" /\ t.pc = "await_chunk"
    /\ ~cancel
    /\ t' = IdleTurn
    /\ pc' = "done"
    /\ obs' = [obs EXCEPT !.raised = TRUE]
    /\ UNCHANGED <<session, disk, rng, cfg, ui, cancel, run, events>>

\* the fetch of the next part raises: the exception leaves run_single_turn
\* and is caught at the top of Agent.run (turn.py:329, loop.py:209-213)
StreamRaise ==
    /\ pc = "turn" /\ t.pc = "await_chunk"
    /\ ~cancel
    /\ Emit(<<ErrorEvent("stream failed"),
              AgentEndEvent("error", run.turn, run.usage)>>)
    /\ run' = [run EXCEPT !.stop_reason = "error"]
    /\ t' = IdleTurn
    /\ pc' = "done"
    /\ obs' = [obs EXCEPT !.raised = TRUE]
    /\ UNCHANGED <<session, disk, rng, cfg, ui, cancel>>

AtSuspension ==
    \/ pc \in {"idle", "loop_top", "compacting"}
    \/ pc = "turn" /\ t.pc \in {"entry", "open", "sleep", "await_chunk",
                                "tools", "executing", "ended"}

\* the user presses Esc: cancel_event.set() (ui/app.py:514-515)
Cancel ==
    /\ ~cancel
    /\ AtSuspension
    /\ cancel' = TRUE
    /\ UNCHANGED <<session, disk, rng, cfg, ui, pc, run, t, events, obs>>

Steps ==
    \/ Run
    \/ LoopTop
    \/ TurnEntry
    \/ StreamOpenOk
    \/ StreamOpenFail
    \/ RetrySleepDone
    \/ ChunkLoopTop
    \/ ChunkCancelled
    \/ ChunkTimeout
    \/ StreamExhausted
    \/ EmitToolEnds
    \/ ToolDispatch
    \/ ToolReturn
    \/ TurnEnd
    \/ LoopOnTurnEnd
    \/ SummaryOk
    \/ SummaryFail
    \/ LoopExit
    \/ Cancel

Next == ChunkArrive(CoreParts, MaxRunParts) \/ Steps \/ StreamRaise
TurnNext == ChunkArrive(StreamParts, MaxParts) \/ Steps

Spec == Init /\ [][Next]_vars
TurnSpec == TurnInit /\ [][TurnNext]_vars


(***************************************************************************)
(* Properties of the session store, checked under SessionSpec              *)
(***************************************************************************)
IsAssistantEntry(e) == e.type = "message" /\ e.message.role = "assistant"
IsPrefix(a, b) == Len(a) <= Len(b) /\ SubSeq(b, 1, Len(a)) = a

\* C2: the session file exists exactly when persistence is enabled and the
\* entry list holds an assistant message entry; an in-memory session has no
\* file path and no file.
C2_FileIffAssistant ==
    /\ disk.exists <=> (session.persist /\ HasAssistant(session.entries))
    /\ ~session.persist => session.session_file = None /\ ~disk.exists

\* C2 witness: entries were buffered, then an assistant message flushed them
C2_Witness ==
    /\ disk.exists
    /\ Len(session.entries) >= 3
    /\ ~IsAssistantEntry(session.entries[1])
    /\ IsAssistantEntry(session.entries[Len(session.entries)])

\* C3: loading the file of a persisted session gives back its entries, in
\* order, and its leaf id.
C3_LoadRoundTrip ==
    disk.exists =>
        /\ Load(disk).ok
        /\ Load(disk).session.entries = session.entries
        /\ Load(disk).session.leaf_id = session.leaf_id

\* C3 witness: entries buffered before the first flush and entries appended
\* after it, of kinds other than message
C3_Witness ==
    /\ disk.exists
    /\ Len(session.entries) = 4
    /\ session.entries[1].type = "compaction"
    /\ IsAssistantEntry(session.entries[2])
    /\ session.entries[3].type = "session_info"
    /\ session.entries[4].type = "model_change"

ChainInv(s) ==
    /\ \A i, j \in DOMAIN s.entries :
         i # j => s.entries[i].id # s.entries[j].id
    /\ \A i \in DOMAIN s.entries :
         s.entries[i].parent_id =
            IF i = 1 THEN None ELSE s.entries[i - 1].id
    /\ s.leaf_id = IF s.entries = <<>> THEN None
                   ELSE s.entries[Len(s.entries)].id

\* a step that changes the entry list adds one entry at its end
AppendsOne(s1, s2) ==
    s2.entries # s1.entries =>
        /\ Len(s2.entries) = Len(s1.entries) + 1
        /\ IsPrefix(s1.entries, s2.entries)
        /\ s2.leaf_id = s2.entries[Len(s2.entries)].id

\* C4: the entries form one chain (distinct ids, parent_id = id of the
\* entry before, null for the first, leaf_id = id of the last entry), and
\* every append adds exactly one entry at the end and makes it the leaf.
C4_SingleChain ==
    /\ []ChainInv(session)
    /\ [][AppendsOne(session, session')]_vars

\* C4 witness: the id generator drew a value already in use and retried
C4_Witness ==
    /\ Len(session.entries) = 4
    /\ rng > 5
    /\ session.entries[4].parent_id = session.entries[3].id


(***************************************************************************)
(* Properties of the turn executor and the agent loop                      *)
(***************************************************************************)
Count(seq, type) == Cardinality({i \in DOMAIN seq : seq[i].type = type})
OfType(seq, type) == SelectSeq(seq, LAMBDA e : e.type = type)
IdsOf(seq, type) ==
    LET of == OfType(seq, type)
    IN  [i \in 1..Len(of) |-> of[i].tool_call_id]
ToolCallIds(content) ==
    LET calls == OfType(content, "tool_call")
    IN  [i \in 1..Len(calls) |-> calls[i].id]
ResultIds(results) == [i \in 1..Len(results) |-> results[i].tool_call_id]

\* the events of the current turn: those after the last turn-start
LastIndexOf(seq, type) ==
    LET at == {i \in DOMAIN seq : seq[i].type = type}
    IN  IF at = {} THEN 0 ELSE CHOOSE i \in at : \A j \in at : j <= i
TurnEvents == SubSeq(events, LastIndexOf(events, "turn_start") + 1, Len(events))

\* run_single_turn has just yielded its turn-end
TurnEnded == pc = "turn" /\ t.pc = "ended"
IsSkipped(result) ==
    result.is_error /\ result.content = <<"Interrupted by user">>

\* C1: the tool results of every turn-end with an assistant message pair
\* off, in order and by id, with the tool-call parts of that message, and
\* in the session every assistant message with k tool-call parts is
\* followed by exactly its k tool-result messages.
C1_ToolResultPairing ==
    /\ \A i \in DOMAIN events :
         (events[i].type = "turn_end" /\ events[i].assistant_message # NoneOpt)
            => ToolCallIds(events[i].assistant_message[1].content)
                  = ResultIds(events[i].tool_results)
    /\ \A i \in DOMAIN session.entries :
         IsAssistantEntry(session.entries[i]) =>
            LET ids == ToolCallIds(session.entries[i].message.content)
            IN  /\ i + Len(ids) <= Len(session.entries)
                /\ \A j \in 1..Len(ids) :
                     /\ session.entries[i + j].type = "message"
                     /\ session.entries[i + j].message.role = "tool_result"
                     /\ session.entries[i + j].message.tool_call_id = ids[j]
                /\ (i + Len(ids) < Len(session.entries) =>
                      ~(/\ session.entries[i + Len(ids) + 1].type = "message"
                        /\ session.entries[i + Len(ids) + 1].message.role
                              = "tool_result"))

\* C1 witness: a first turn with two tool-calls of different ids is in the
\* session, followed by the assistant message of a second turn
C1_Witness ==
    \E i \in DOMAIN session.entries :
        /\ IsAssistantEntry(session.entries[i])
        /\ ToolCallIds(session.entries[i].message.content)
              = <<"call-2", "call-1">>
        /\ i + 3 <= Len(session.entries)
        /\ IsAssistantEntry(session.entries[i + 3])

StartOf == [thinking |-> "thinking_start", text |-> "text_start",
            tool |-> "tool_start"]
DeltaOf == [thinking |-> "thinking_delta", text |-> "text_delta",
            tool |-> "tool_args_delta"]
EndOf == [thinking |-> "thinking_end", text |-> "text_end",
          tool |-> "tool_end"]
Unclosed(te, k) == Count(te, StartOf[k]) - Count(te, EndOf[k])

\* the turn was cut short by cancellation or by the idle timeout
CutShort(te) == \E i \in DOMAIN te : te[i].type \in {"interrupted", "warning"}

\* the block of kind k started last got no end event and no text
EmptyUnclosed(te, k) ==
    \E i \in DOMAIN te :
        /\ te[i].type = StartOf[k]
        /\ \A j \in (i + 1)..Len(te) :
             /\ te[j].type # EndOf[k]
             /\ te[j].type = DeltaOf[k] => te[j].delta = <<>>

\* C5 as stated: at the end of every turn the start and end events of each
\* kind are equal in number.
C5_StartEndBalanced ==
    TurnEnded =>
        \A k \in {"thinking", "text", "tool"} : Unclosed(TurnEvents, k) = 0

\* C5 amended: tool-start and tool-end are equal in number; thinking and
\* text starts equal their ends, except that the block in progress when
\* cancellation or the idle timeout ends the chunk loop gets no end event
\* when its accumulated text is empty.
C5_BalancedButEmptyDropped ==
    TurnEnded =>
        LET te == TurnEvents
        IN  /\ Unclosed(te, "tool") = 0
            /\ \A k \in {"thinking", "text"} :
                 /\ Unclosed(te, k) \in {0, 1}
                 /\ Unclosed(te, k) = 1 => CutShort(te) /\ EmptyUnclosed(te, k)

\* C5 witness: a cancelled turn whose text block in progress had text and
\* was closed, after a tool-call
C5_Witness ==
    /\ TurnEnded
    /\ t.interrupted
    /\ Count(TurnEvents, "tool_start") = 1
    /\ Count(TurnEvents, "text_start") = 1
    /\ Count(TurnEvents, "text_end") = 1
    /\ Count(TurnEvents, "text_delta") = 2

\* C6: every tool-end precedes every tool-result, both follow the order of
\* the tool-starts, and a tool is entered only when the result of the one
\* before it has been emitted.
C6_ToolEndsThenResults ==
    LET te == TurnEvents
        starts == IdsOf(te, "tool_start")
        ends == IdsOf(te, "tool_end")
        results == IdsOf(te, "tool_result")
    IN  /\ LastIndexOf(te, "tool_end") > 0 =>
              \A i \in 1..LastIndexOf(te, "tool_end") :
                  te[i].type # "tool_result"
        /\ IsPrefix(ends, starts)
        /\ IsPrefix(results, ends)
        /\ IsPrefix(obs.executed, ends)
        /\ Len(obs.executed) <= Len(results) + 1
        /\ (TurnEnded /\ Last(events).assistant_message # NoneOpt) =>
              ends = starts /\ results = ends

\* C6 witness: two tool-calls of different ids, both executed
C6_Witness ==
    /\ TurnEnded
    /\ obs.executed = <<"call-2", "call-1">>
    /\ IdsOf(TurnEvents, "tool_result") = <<"call-2", "call-1">>

PartsOfType(content, type) == Len(OfType(content, type))

\* the interrupt cleanup meets an empty thinking or text block
CleanupOfEmptyBlock ==
    /\ pc = "turn" /\ t.pc = "post_loop" /\ t.interrupted
    /\ \/ t.current_state = "think" /\ Join(t.think_buffer) = <<>>
       \/ t.current_state = "text" /\ Join(t.text_buffer) = <<>>

C7_AtTurnEnd ==
    (TurnEnded /\ t.interrupted) =>
        /\ obs.executed = <<>>
        /\ Last(events).type = "turn_end"
        /\ Last(events).stop_reason = "interrupted"
        /\ events[Len(events) - 1] = InterruptedEvent
        /\ ResultIds(Last(events).tool_results)
              = IdsOf(TurnEvents, "tool_start")
        /\ \A i \in DOMAIN Last(events).tool_results :
             IsSkipped(Last(events).tool_results[i])

C7_Step ==
    /\ (pc = "turn" /\ t.interrupted) => obs'.consumed = obs.consumed
    /\ CleanupOfEmptyBlock =>
          /\ Count(events', "thinking_end") = Count(events, "thinking_end")
          /\ Count(events', "text_end") = Count(events, "text_end")
          /\ PartsOfType(t'.content, "thinking")
                = PartsOfType(t.content, "thinking")
          /\ PartsOfType(t'.content, "text") = PartsOfType(t.content, "text")

\* C7: when cancellation ends the chunk loop no further part is fetched, no
\* tool is executed, every tool-call started gets the synthetic
\* 'Interrupted by user' error result, an empty thinking/text block in
\* progress is dropped, and the turn ends with interrupted, then turn-end
\* with stop_reason INTERRUPTED.
C7_CancelWhileStreaming == []C7_AtTurnEnd /\ [][C7_Step]_vars

\* C7 witness: cancellation while awaiting the third part, after a
\* tool-call start and an empty text part
C7_Witness ==
    /\ TurnEnded
    /\ t.interrupted
    /\ obs.consumed = 2
    /\ Count(TurnEvents, "tool_start") = 1
    /\ Count(TurnEvents, "text_start") = 1
    /\ Count(TurnEvents, "text_end") = 0

C8_AtTurnEnd ==
    (TurnEnded /\ Last(events).assistant_message # NoneOpt) =>
        /\ Len(t.tool_results) = Len(t.finalized_tools)
        /\ Last(events).tool_results = t.tool_results
        /\ \A n \in DOMAIN t.tool_results :
             IF n > Len(obs.executed)
             THEN t.tool_results[n]
                     = CreateSkippedToolResult(t.finalized_tools[n].tool_call)
             ELSE ~IsSkipped(t.tool_results[n])

C8_Step ==
    /\ cancel => obs'.executed = obs.executed
    /\ (pc = "turn" /\ pc' = "turn") => IsPrefix(t.tool_results, t'.tool_results)

\* C8: once the signal is set no tool execution is started; the queued
\* tool-calls not yet begun get the synthetic 'Interrupted by user' error
\* result, and the results of the tools executed before stay as they were.
C8_NoExecutionAfterCancel == []C8_AtTurnEnd /\ [][C8_Step]_vars

\* C8 witness: the first tool was executed and succeeded, the signal was
\* set while it ran, the second tool-call was skipped
C8_Witness ==
    /\ TurnEnded
    /\ Len(obs.executed) = 1
    /\ Len(t.tool_results) = 2
    /\ ~t.tool_results[1].is_error
    /\ IsSkipped(t.tool_results[2])

EmitsTurnStart ==
    \E i \in (Len(events) + 1)..Len(events') : events'[i].type = "turn_start"

C9_Step ==
    /\ EmitsTurnStart => ~cancel /\ ~cancel'
    /\ (pc = "loop_top" /\ cancel /\ run.turn < cfg.max_turns) =>
          /\ events' = Append(events, InterruptedEvent)
          /\ pc' = "loop_exit"
          /\ run'.was_interrupted
          /\ UNCHANGED <<t, obs, session>>
    /\ (pc = "loop_exit" /\ run.was_interrupted) =>
          /\ events' = Append(events, AgentEndEvent("interrupted", run.turn,
                                                    run.usage))
          /\ pc' = "done"

C9_CancelledBeforeFirstTurn ==
    (pc = "done" /\ events[2] = InterruptedEvent) =>
        /\ Len(events) = 3
        /\ events[3].type = "agent_end"
        /\ events[3].total_turns = 0
        /\ events[3].stop_reason = "interrupted"

\* C9: no turn-start is emitted while the signal is set; a loop iteration
\* that begins with the signal set emits interrupted and the run ends with
\* agent-end(INTERRUPTED) without a call of the turn executor, with
\* total_turns = 0 when that was the first iteration.
C9_NoTurnStartWhenCancelled == []C9_CancelledBeforeFirstTurn /\ [][C9_Step]_vars

\* C9 witness: the signal was set after a first turn that asked for tools;
\* the second iteration ended the run
C9_Witness ==
    /\ pc = "done"
    /\ run.turn = 1
    /\ cfg.max_turns = 2
    /\ Len(events) >= 3
    /\ events[Len(events) - 1] = InterruptedEvent
    /\ events[Len(events) - 2].type = "turn_end"
    /\ events[Len(events) - 2].stop_reason = "tool_use"

C10_Step ==
    (pc = "turn" /\ t.pc = "entry" /\ cancel) =>
        /\ events' = events \o <<InterruptedEvent,
                                 TurnEndEvent(run.turn, NoneOpt, <<>>,
                                              "interrupted")>>
        /\ t'.pc = "ended"
        /\ obs' = obs

C10_AtTurnEnd ==
    (/\ TurnEnded
     /\ Last(events).assistant_message = NoneOpt
     /\ Last(events).stop_reason = "interrupted") =>
        /\ obs.opens = 0
        /\ Len(TurnEvents) = 2
        /\ TurnEvents[1] = InterruptedEvent

\* C10: a turn entered with the signal set emits exactly interrupted and
\* turn-end(INTERRUPTED, no assistant message, no tool results), and
\* provider.stream is not called.
C10_PreCancelledTurn == []C10_AtTurnEnd /\ [][C10_Step]_vars

\* C10 witness: the signal was set between turn-start and the entry of the
\* executor
C10_Witness ==
    /\ TurnEnded
    /\ cancel
    /\ obs.opens = 0
    /\ Len(TurnEvents) = 2
    /\ Last(events).assistant_message = NoneOpt

(***************************************************************************)
(* Opening the stream: retries and errors                                  *)
(***************************************************************************)
Min(a, b) == IF a <= b THEN a ELSE b

\* the number of openings of this turn that failed with a retryable error
RetryableFailures ==
    Cardinality({i \in DOMAIN obs.attempts : obs.attempts[i] = "retryable"})

C11_AtAllTimes ==
    pc = "turn" =>
        LET retries == OfType(TurnEvents, "retry")
            n == Len(RetryDelays)
        IN  /\ Len(retries) = Min(RetryableFailures, n)
            /\ \A i \in DOMAIN retries :
                 /\ retries[i].attempt = i
                 /\ retries[i].total_attempts = n
                 /\ retries[i].delay = RetryDelays[i]
            /\ obs.opens = Len(obs.attempts)
            /\ obs.opens <= n + 1
            /\ \A i \in DOMAIN obs.attempts :
                 obs.attempts[i] # "retryable" => i = Len(obs.attempts)

\* the opening succeeds: the turn goes on to the chunk loop, no error event
C11_Step ==
    (pc = "turn" /\ t.pc = "open" /\ obs'.attempts = Append(obs.attempts, "ok"))
        => /\ t'.pc = "chunk_top"
           /\ events' = events
           /\ Count(TurnEvents, "error") = 0

\* C11: with the schedule of n delays and an opening that fails with a
\* retryable error k times, min(k, n) retry events are emitted, the i-th
\* with attempt = i, total_attempts = n and the i-th delay; the stream is
\* opened at most n + 1 times; an opening that succeeds leads to streaming
\* with no error event.
C11_RetrySchedule == []C11_AtAllTimes /\ [][C11_Step]_vars

\* C11 witness: two retryable failures, then the stream opens and the turn
\* ends with TOOL_USE
C11_Witness ==
    /\ TurnEnded
    /\ obs.attempts = <<"retryable", "retryable", "ok">>
    /\ Count(TurnEvents, "retry") = 2
    /\ Last(events).stop_reason = "tool_use"

\* the turn ended in the retry loop
OpenFailed ==
    /\ TurnEnded
    /\ obs.attempts # <<>>
    /\ Last(obs.attempts) # "ok"

\* C12: when the opening fails with a non-retryable error (no retry event
\* for it, no further opening) or with a retryable error after every delay
\* was used, the turn ends with exactly error(message) and
\* turn-end(ERROR, no assistant message, no tool results).
C12_OpenErrorEndsTurn ==
    /\ OpenFailed =>
          /\ Count(TurnEvents, "retry") = Len(obs.attempts) - 1
          /\ obs.opens = Len(obs.attempts)
          /\ Len(TurnEvents) = Len(obs.attempts) + 1
          /\ TurnEvents[Len(TurnEvents) - 1].type = "error"
          /\ \E e \in OpenErrors :
               /\ TurnEvents[Len(TurnEvents) - 1] = ErrorEvent(e.message)
               /\ ShouldRetryForError(e) <=> Last(obs.attempts) = "retryable"
          /\ Last(events) = TurnEndEvent(run.turn, NoneOpt, <<>>, "error")
          /\ Last(obs.attempts) = "retryable" =>
                Len(obs.attempts) = Len(RetryDelays) + 1
    /\ (pc = "turn" /\ obs.attempts # <<>> /\ Last(obs.attempts) = "fatal")
          => TurnEnded
    /\ (pc = "turn" /\ Len(obs.attempts) = Len(RetryDelays) + 1
          /\ Last(obs.attempts) = "retryable") => TurnEnded

\* C12 witness: every delay was used and the last opening failed too
C12_Witness ==
    /\ OpenFailed
    /\ obs.attempts = <<"retryable", "retryable", "retryable", "retryable">>

(***************************************************************************)
(* StallSpec: a stream that opens, yields parts but no terminal part, and  *)
(* then yields nothing more; the signal is never set.  The steps of        *)
(* run_single_turn are taken when they can be (the event loop runs what is *)
(* ready, the timer of asyncio.wait fires, a tool that is executed         *)
(* returns); the provider owes nothing.                                    *)
(***************************************************************************)
StallParts == ThinkParts \cup TextParts \cup ToolCallStarts \cup ToolCallDeltas
StallConfigs ==
    { Config(1, "continue", 60, u) : u \in {NoneOpt, Some(UsageSmall)} }
StallInit == InitWith(StallConfigs)
StallTurnSteps ==
    \/ TurnEntry
    \/ StreamOpenOk
    \/ ChunkLoopTop
    \/ ChunkTimeout
    \/ EmitToolEnds
    \/ ToolDispatch
    \/ ToolReturn
    \/ TurnEnd
StallLoopSteps ==
    \/ Run
    \/ LoopTop
    \/ LoopOnTurnEnd
    \/ LoopExit
StallNext ==
    \/ ChunkArrive(StallParts, MaxParts)
    \/ StallTurnSteps
    \/ StallLoopSteps
StallSpec == StallInit /\ [][StallNext]_vars /\ WF_vars(StallTurnSteps)

\* the chunk loop is running and a tool_call_start has been received
StreamingWithToolCall ==
    /\ pc = "turn"
    /\ t.pc \in {"chunk_top", "await_chunk"}
    /\ Count(TurnEvents, "tool_start") >= 1

\* the turn ended by the idle timeout with its tools executed
EndedByIdleTimeout ==
    /\ TurnEnded
    /\ LET te == TurnEvents
           w == LastIndexOf(te, "warning")
           after == SubSeq(te, w + 1, Len(te))
           starts == IdsOf(te, "tool_start")
       IN  /\ Count(te, "warning") = 1
           /\ te[w] = WarningEvent(cfg.tool_call_idle_timeout_seconds)
           /\ IdsOf(te, "tool_end") = starts
           /\ IdsOf(after, "tool_end") = starts
           /\ IdsOf(te, "tool_result") = starts
           /\ IdsOf(after, "tool_result") = starts
           /\ obs.executed = starts
           /\ \A i \in DOMAIN after :
                after[i].type = "tool_result" =>
                    ~IsSkipped(after[i].result)
           /\ Last(te).type = "turn_end"
           /\ Last(te).stop_reason = "tool_use"
           /\ ResultIds(Last(te).tool_results) = starts

IsStreamErrorAt(te, i) == te[i].type = "error" /\ ~OpenFailed

StreamDriven ==
    {"thinking_start", "thinking_delta", "text_start", "text_delta",
     "tool_start", "tool_args_delta", "tool_args_token_update", "error"}

\* C14: whenever the provider emits a stream_error part, an error event is
\* emitted, every buffered block is still finalized, the executor consumes
\* nothing more from the stream, and the turn-end has stop_reason ERROR.
C14_StreamErrorStopsStream ==
    TurnEnded =>
        LET te == TurnEvents
        IN  \A i \in DOMAIN te :
              IsStreamErrorAt(te, i) =>
                /\ Last(te).stop_reason = "error"
                /\ \A k \in {"thinking", "text", "tool"} : Unclosed(te, k) = 0
                /\ \A j \in (i + 1)..Len(te) : te[j].type \notin StreamDriven

(***************************************************************************)
(* Failing tools                                                           *)
(***************************************************************************)
QueuedIds(tt) ==
    [i \in DOMAIN tt.finalized_tools |-> tt.finalized_tools[i].tool_call.id]

\* the result of a tool-call that was not skipped, against its tool-call
ResultFitsCall(r, p) ==
    /\ r.tool_call_id = p.tool_call.id
    /\ r.tool_name = p.tool_call.name
    /\ p.tool = None =>
          r.is_error /\ r.content = <<"Unknown tool: ", p.tool_call.name>>
    /\ (p.tool # None /\ ~ParamsOk(p.tool_call.arguments)) =>
          /\ r.is_error
          /\ Len(r.content) = 2 /\ r.content[1] = "Error executing tool: "
    /\ (p.tool # None /\ ParamsOk(p.tool_call.arguments)) =>
          \/ r.is_error /\ r.content = <<"Error executing tool: ", "boom">>
          \/ r.is_error /\ r.content = <<"(no output)">>
          \/ ~r.is_error /\ r.content = <<"out">>

\* C15: a failing tool never aborts the turn.  The result of an unknown tool
\* is an error 'Unknown tool: <name>', the result of a tool whose parameters
\* or execution raise is an error 'Error executing tool: <message>'; the
\* tool-calls queued after it are still executed, in order, and the turn-end
\* is emitted with one result per tool-call.
C15_ToolFailureNotFatal ==
    /\ (pc = "turn" /\ t.pc \in {"tools", "executing", "ended"}) =>
          /\ Len(t.tool_results) <= Len(t.finalized_tools)
          /\ \A i \in DOMAIN t.tool_results :
               ~IsSkipped(t.tool_results[i]) =>
                   ResultFitsCall(t.tool_results[i], t.finalized_tools[i])
    /\ TurnEnded =>
          /\ Last(events).type = "turn_end"
          /\ Last(events).tool_results = t.tool_results
          /\ ResultIds(t.tool_results) = QueuedIds(t)
          /\ obs.executed =
                SubSeq(QueuedIds(t), 1, Len(obs.executed))
          /\ \A i \in DOMAIN t.tool_results :
               IsSkipped(t.tool_results[i]) => cancel /\ i > Len(obs.executed)

\* C15 witness: the first tool-call names an unknown tool, the second one's
\* execution raises; both have their error result and the turn ended
C15_Witness ==
    /\ TurnEnded
    /\ obs.executed = <<"call-2", "call-1">>
    /\ Len(t.tool_results) = 2
    /\ t.tool_results[1].content = <<"Unknown tool: ", "unknown_tool">>
    /\ t.tool_results[1].is_error
    /\ t.tool_results[2].content = <<"Error executing tool: ", "boom">>
    /\ t.tool_results[2].is_error

(***************************************************************************)
(* Deltas and their blocks                                                 *)
(***************************************************************************)
\* the delta at i belongs to a block of kind k that is open at i
InOpenBlock(te, i, k) ==
    \E s \in 1..(i - 1) :
        /\ te[s].type = StartOf[k]
        /\ \A j \in (s + 1)..(i - 1) : te[j].type \notin {StartOf[k], EndOf[k]}

\* the block of the delta at i is closed by an end event after i
ClosedAfter(te, i, k) ==
    \E e \in (i + 1)..Len(te) :
        /\ te[e].type = EndOf[k]
        /\ \A j \in (i + 1)..(e - 1) : te[j].type \notin {StartOf[k], EndOf[k]}

\* the delta at i belongs to the last block of kind k, which got no end
\* event and no text
InDroppedEmptyBlock(te, i, k) ==
    /\ CutShort(te)
    /\ te[i].delta = <<>>
    /\ \A j \in (i + 1)..Len(te) :
         /\ te[j].type \notin {StartOf[k], EndOf[k]}
         /\ te[j].type = DeltaOf[k] => te[j].delta = <<>>

\* the event at i about the arguments of a tool-call lies after the
\* tool-start of its id and before any tool-end of its id
InsideToolCall(te, i) ==
    /\ \E s \in 1..(i - 1) :
         te[s].type = "tool_start" /\ te[s].tool_call_id = te[i].tool_call_id
    /\ \A j \in 1..(i - 1) :
         te[j].type = "tool_end" =>
             te[j].tool_call_id # te[i].tool_call_id

ArgsEvents == {"tool_args_delta", "tool_args_token_update"}

MaxTokenParts == 10

\* a chunk of 86 characters: 21 tokens
LongArgs == [i \in 1..86 |-> "a"]
TokenParts ==
    ToolCallStarts
        \cup { [kind |-> "tool_call_delta", index |-> 0, delta |-> LongArgs] }
TokenConfigs == { Config(1, "continue", 60, NoneOpt) }
TokenInit == InitWith(TokenConfigs)
TokenNext ==
    \/ Run
    \/ LoopTop
    \/ TurnEntry
    \/ StreamOpenOk
    \/ ChunkLoopTop
    \/ ChunkArrive(TokenParts, MaxTokenParts)
TokenSpec == TokenInit /\ [][TokenNext]_vars

\* the tool-start of the tool-call the event at i belongs to
ToolStartBefore(te, i) ==
    CHOOSE s \in 1..(i - 1) :
        /\ te[s].type = "tool_start"
        /\ \A j \in (s + 1)..(i - 1) : te[j].type # "tool_start"

\* the tokens and the number of the argument chunks among te[a..b]
RECURSIVE ArgTokens(_, _, _)
ArgTokens(te, a, b) ==
    IF a > b THEN 0
    ELSE (IF te[b].type = "tool_args_delta"
          THEN CountTokens(te[b].delta) ELSE 0) + ArgTokens(te, a, b - 1)
ArgChunks(te, a, b) ==
    Cardinality({ j \in a..b : te[j].type = "tool_args_delta" })

\* C17: within one tool-call the token_count of successive token updates
\* never decreases; each update carries the id and the name of the
\* tool-call being streamed; the counters restart from zero at every
\* tool_call_start, so that an update counts the chunks of its own
\* tool-call only.
C17_TokenUpdates ==
    pc = "turn" =>
        LET te == TurnEvents
        IN  \A i \in DOMAIN te :
              te[i].type = "tool_args_token_update" =>
                /\ \E s \in 1..(i - 1) : te[s].type = "tool_start"
                /\ LET s == ToolStartBefore(te, i)
                   IN  /\ te[i].tool_call_id = te[s].tool_call_id
                       /\ te[i].tool_name = te[s].tool_name
                       /\ te[i].token_count = ArgTokens(te, s + 1, i)
                       /\ te[i].token_count > TOOL_ARGS_TOKEN_DISPLAY_THRESHOLD
                       /\ ArgChunks(te, s + 1, i) > 0
                       /\ ArgChunks(te, s + 1, i)
                             % TOOL_ARGS_TOKEN_CHUNK_UPDATE_INTERVAL = 0
                       /\ \A j \in (s + 1)..(i - 1) :
                            te[j].type = "tool_args_token_update" =>
                                te[j].token_count <= te[i].token_count
                       /\ InsideToolCall(te, i)

\* C17 witness: a tool-call got an update, and the tool-call started after
\* it got its own update, which counts from zero
C17_Witness ==
    /\ pc = "turn"
    /\ LET te == TurnEvents
       IN  /\ Len(te) = 12
           /\ te[1] = ToolEv("tool_start", "call-1", "read")
           /\ te[6] = TokenUpdateEvent("call-1", "read", 84)
           /\ te[7] = ToolEv("tool_start", "call-2", "unknown_tool")
           /\ te[12] = TokenUpdateEvent("call-2", "unknown_tool", 84)

(***************************************************************************)
(* Assistant messages without content                                      *)
(***************************************************************************)
\* C18: every assistant message in the session whose content list is empty
\* has stop_reason INTERRUPTED, and a turn that was not interrupted does not
\* end with an assistant message of empty content.
C18_EmptyContentOnlyInterrupted ==
    /\ \A i \in DOMAIN session.entries :
         (/\ IsAssistantEntry(session.entries[i])
          /\ session.entries[i].message.content = <<>>)
            => session.entries[i].message.stop_reason = "interrupted"
    /\ (/\ TurnEnded
        /\ ~t.interrupted
        /\ Last(events).assistant_message # NoneOpt)
          => Last(events).assistant_message[1].content # <<>>

(***************************************************************************)
(* The order of the content parts                                          *)
(***************************************************************************)
StartTypes == {"thinking_start", "text_start", "tool_start"}
EndTypes == {"thinking_end", "text_end", "tool_end"}
PartKind ==
    [thinking_start |-> "thinking", text_start |-> "text",
     tool_start |-> "tool_call", thinking_end |-> "thinking",
     text_end |-> "text", tool_end |-> "tool_call"]

\* the kinds of the blocks, in the order of their events of the given types
BlockKinds(te, types) ==
    LET of == SelectSeq(te, LAMBDA e : e.type \in types)
    IN  [i \in 1..Len(of) |-> PartKind[of[i].type]]
ContentKinds(content) == [i \in 1..Len(content) |-> content[i].type]

\* the turn-end of the current turn carries an assistant message
EndedWithMessage == TurnEnded /\ Last(events).assistant_message # NoneOpt
EndContent == Last(events).assistant_message[1].content

\* C19 as stated: the content parts of the assistant message of turn-end
\* are in the order in which their blocks began in the stream (here for the
\* turns that neither cancellation nor the idle timeout cut short, where
\* every block that began has its part).
C19_ContentInStartOrder ==
    (EndedWithMessage /\ ~CutShort(TurnEvents)) =>
        /\ ContentKinds(EndContent) = BlockKinds(TurnEvents, StartTypes)
        /\ ToolCallIds(EndContent) = IdsOf(TurnEvents, "tool_start")

\* C19 amended: the content parts are in the order of the end events of
\* their blocks: the thinking and text parts in the order in which their
\* blocks began, then every tool-call part, in the order in which the
\* tool-calls began.
C19_ContentInEndOrder ==
    EndedWithMessage =>
        LET te == TurnEvents
            content == EndContent
        IN  /\ ContentKinds(content) = BlockKinds(te, EndTypes)
            /\ ToolCallIds(content) = IdsOf(te, "tool_end")
            /\ ToolCallIds(content) = IdsOf(te, "tool_start")
            /\ \A i, j \in DOMAIN content :
                 (i < j /\ content[i].type = "tool_call")
                    => content[j].type = "tool_call"
            /\ ~CutShort(te) =>
                 SelectSeq(ContentKinds(content),
                           LAMBDA k : k # "tool_call")
                   = SelectSeq(BlockKinds(te, StartTypes),
                               LAMBDA k : k # "tool_call")

\* C19 witness: text arrived after two tool-calls; its part comes first
C19_Witness ==
    /\ EndedWithMessage
    /\ BlockKinds(TurnEvents, StartTypes) = <<"tool_call", "tool_call", "text">>
    /\ ContentKinds(EndContent) = <<"text", "tool_call", "tool_call">>
    /\ ToolCallIds(EndContent) = <<"call-2", "call-1">>

(***************************************************************************)
(* The number of turns of a run                                            *)
(***************************************************************************)
\* C20: in one run there are never more turn-start events than max_turns,
\* the turns are numbered 1, 2, ... in order, and agent-end carries the
\* number of turn-start events as total_turns.
C20_TurnsBounded ==
    LET starts == OfType(events, "turn_start")
    IN  /\ Len(starts) <= cfg.max_turns
        /\ \A i \in DOMAIN starts : starts[i].turn = i
        /\ pc = "done" =>
              /\ Last(events).type = "agent_end"
              /\ Last(events).total_turns = Len(starts)
              /\ Count(events, "agent_end") = 1

\* C20 witness: a run of two turns that used up max_turns = 2
C20_Witness ==
    /\ pc = "done"
    /\ cfg.max_turns = 2
    /\ Count(events, "turn_start") = 2
    /\ Last(events).total_turns = 2
    /\ Last(events).stop_reason = "length"

(***************************************************************************)
(* The end of a run                                                        *)
(***************************************************************************)
\* an exception ended the run: the error event of Agent.run comes right
\* before agent-end
RunRaised ==
    /\ pc = "done"
    /\ Len(events) >= 2
    /\ events[Len(events) - 1].type = "error"

\* the stop reason carried by the last turn-end of the run
LastTurnStopReason == events[LastIndexOf(events, "turn_end")].stop_reason

C22_StartAndEnd ==
    /\ events # <<>> =>
          /\ events[1].type = "agent_start"
          /\ Count(events, "agent_start") = 1
    /\ \A i \in DOMAIN events :
          events[i].type = "agent_end" => i = Len(events) /\ pc = "done"
    /\ pc = "done" =>
          /\ Last(events).type = "agent_end"
          /\ Count(events, "agent_end") = 1
    /\ (pc = "done" /\ obs.raised) =>
          /\ events[Len(events) - 1] = ErrorEvent("stream failed")
          /\ Last(events).stop_reason = "error"

\* C22 witness: the stream of the second turn raised; the run ended with
\* error, agent-end(ERROR)
C22_Witness ==
    /\ pc = "done"
    /\ obs.raised
    /\ Count(events, "turn_start") = 2
    /\ Last(events) = AgentEndEvent("error", 2, run.usage)

(***************************************************************************)
(* What lets the loop start another turn                                   *)
(***************************************************************************)
\* the index of the last turn-end before position i (0 when there is none)
TurnEndBefore(i) == LastIndexOf(SubSeq(events, 1, i - 1), "turn_end")

\* a compaction-end event lies strictly between positions a and b
CompactionEndBetween(a, b) ==
    \E j \in (a + 1)..(b - 1) : events[j].type = "compaction_end"

\* C23: turn n+1 starts only if turn n ended with TOOL_USE, or a
\* compaction-end event was emitted after turn n in overflow mode
\* 'continue'; after a turn that ended with STOP, LENGTH or ERROR and no
\* compaction, no turn-start follows.
C23_NextTurnOnlyAfterToolUseOrCompaction ==
    \A i \in DOMAIN events :
        (events[i].type = "turn_start" /\ events[i].turn > 1) =>
            LET p == TurnEndBefore(i)
            IN  /\ p > 0
                /\ events[p].turn = events[i].turn - 1
                /\ \/ events[p].stop_reason = "tool_use"
                   \/ /\ cfg.on_overflow = "continue"
                      /\ CompactionEndBetween(p, i)
                /\ events[p].stop_reason \in {"stop", "length", "error"} =>
                      CompactionEndBetween(p, i)

\* C23 witness: the first turn ended with STOP, the context overflowed and
\* was compacted in 'continue' mode, and a second turn started
C23_Witness ==
    \E i \in DOMAIN events :
        /\ events[i] = TurnStartEvent(2)
        /\ events[i - 1].type = "compaction_end"
        /\ events[TurnEndBefore(i)].stop_reason = "stop"
        /\ cfg.on_overflow = "continue"

(***************************************************************************)
(* Overflow compaction                                                     *)
(***************************************************************************)
\* this step emits compaction-end with the given aborted flag
EmitsCompactionEnd(aborted) ==
    /\ Len(events') = Len(events) + 1
    /\ events'[Len(events')].type = "compaction_end"
    /\ events'[Len(events')].aborted = aborted

C24_Step ==
    EmitsCompactionEnd(TRUE) =>
        /\ Last(events).type = "compaction_start"
        /\ events'[Len(events')].tokens_before
              = TokensBefore(LastAssistantUsage(session.entries)[1])
        /\ session' = session
        /\ disk' = disk
        /\ Messages(session') = Messages(session)
        /\ AllMessages(session') = AllMessages(session)

\* C24: when the overflow check fires and the summary generation raises,
\* compaction-start is followed by compaction-end(aborted=true) and the
\* session is as it was before the check: no compaction entry, no synthetic
\* user message, the same compacted view.
C24_AbortedCompactionLeavesSession == [][C24_Step]_vars

\* C24 witness: a compaction was aborted and the session has no compaction
\* entry and ends with the assistant message of the turn
C24_Witness ==
    /\ events # <<>>
    /\ Last(events) = CompactionEndEvent(195002, TRUE)
    /\ \A i \in DOMAIN session.entries :
         session.entries[i].type # "compaction"
    /\ IsAssistantEntry(Last(session.entries))
    /\ Len(Messages(session)) = 2

C25_Step ==
    EmitsCompactionEnd(FALSE) =>
        LET n == Len(session.entries)
            added == IF cfg.on_overflow = "continue" THEN 2 ELSE 1
            tokens_before ==
                TokensBefore(LastAssistantUsage(session.entries)[1])
        IN  /\ Last(events).type = "compaction_start"
            /\ Len(session'.entries) = n + added
            /\ SubSeq(session'.entries, 1, n) = session.entries
            /\ session'.entries[n + 1].type = "compaction"
            /\ session'.entries[n + 1].first_kept_entry_id = session.leaf_id
            /\ session'.entries[n + 1].first_kept_entry_id
                  = session.entries[n].id
            /\ session'.entries[n + 1].tokens_before = tokens_before
            /\ events'[Len(events')].tokens_before = tokens_before
            /\ cfg.on_overflow = "continue" =>
                  /\ session'.entries[n + 2].type = "message"
                  /\ session'.entries[n + 2].message = ContinueMessage
                  /\ session'.entries[n + 2].message.role = "user"

\* C25: a successful overflow compaction appends exactly one compaction
\* entry, whose first_kept_entry_id is the leaf id at that moment (the id
\* of the entry right before it) and whose tokens_before is the sum of the
\* four counts of the last assistant usage, followed by one synthetic user
\* message in 'continue' mode and by nothing in 'pause' mode; it then emits
\* compaction-end(aborted=false) with the same tokens_before.
C25_CompactionAppends == [][C25_Step]_vars

\* C25 witness: a compaction in 'pause' mode left the compaction entry as
\* the last entry; it names the entry before it
C25_Witness ==
    /\ cfg.on_overflow = "pause"
    /\ events # <<>>
    /\ Last(events) = CompactionEndEvent(195002, FALSE)
    /\ Len(session.entries) >= 2
    /\ Last(session.entries).type = "compaction"
    /\ Last(session.entries).first_kept_entry_id
          = session.entries[Len(session.entries) - 1].id
    /\ Last(session.entries).tokens_before = 195002

(***************************************************************************)
(* The views of the session log                                            *)
(***************************************************************************)
CompactionsAt(entries) ==
    {i \in DOMAIN entries : entries[i].type = "compaction"}
LastCompactionAt(entries) ==
    CHOOSE i \in CompactionsAt(entries) :
        \A j \in CompactionsAt(entries) : j <= i

\* C26: without a compaction entry the compacted view is the sequence of
\* all message entries; otherwise it is the synthetic user message 'What
\* did we do so far?', a synthetic assistant message whose only part is the
\* text of the most recent compaction's summary, then the message entries
\* after the most recent compaction entry, in log order.
C26_CompactedView ==
    LET entries == session.entries
        view == Messages(session)
    IN  IF CompactionsAt(entries) = {}
        THEN /\ view = EntryMessages(entries)
             /\ view = AllMessages(session)
        ELSE LET c == LastCompactionAt(entries)
                 after == EntryMessages(SubSeq(entries, c + 1, Len(entries)))
             IN  /\ Len(view) = 2 + Len(after)
                 /\ view[1] = UserMessage("What did we do so far?")
                 /\ view[2].role = "assistant"
                 /\ view[2].content = <<TextContent(entries[c].summary)>>
                 /\ SubSeq(view, 3, Len(view)) = after

\* C26 witness: a message, two compactions with different summaries, and a
\* message after them; the view has the second summary and the last
\* message only
C26_Witness ==
    /\ Len(session.entries) = 4
    /\ CompactionsAt(session.entries) = {2, 3}
    /\ session.entries[2].summary # session.entries[3].summary
    /\ session.entries[1].type = "message"
    /\ session.entries[4].type = "message"
    /\ Messages(session)
          = <<UserMessage("What did we do so far?"),
              AssistantMessage(<<TextContent(session.entries[3].summary)>>,
                               NoneOpt, "stop"),
              session.entries[4].message>>

C27_Step ==
    /\ IsPrefix(session.entries, session'.entries)
    /\ IsPrefix(AllMessages(session), AllMessages(session'))
    /\ disk.exists =>
          /\ disk'.exists
          /\ IsPrefix(disk.lines, disk'.lines)

\* C27: the session log is append-only.  Every operation leaves the
\* existing entries unchanged and in place (the entry list before is a
\* prefix of the entry list after), the full view is never shortened, and
\* once the file has been written its existing lines are never rewritten.
C27_AppendOnly == [][C27_Step]_vars

\* C27 witness: a compaction was appended to a flushed session; the file
\* has the header and one line per entry, the full view has every message
C27_Witness ==
    /\ disk.exists
    /\ Len(session.entries) = 4
    /\ Last(session.entries).type = "compaction"
    /\ Len(AllMessages(session)) = 3
    /\ Len(Messages(session)) = 2
    /\ Len(disk.lines) = 5

(***************************************************************************)
(* Derived properties across a reload (session.py:364-402, 433-480)        *)
(***************************************************************************)
HasEntryOfType(s, type) == LastOfType(s.entries, type) # NoneOpt

\* C28 as stated: for every persisted session, whatever it was created with
\* and whatever set_model, set_thinking_level and append_session_info calls
\* were made, the session loaded from its file reports the same model, the
\* same thinking level and the same name.
C28_DerivedPropertiesRoundTrip ==
    Load(disk).ok =>
        LET loaded == Load(disk).session
        IN  /\ Model(loaded) = Model(session)
            /\ ThinkingLevel(loaded) = ThinkingLevel(session)
            /\ Name(loaded) = Name(session)

\* C28, amended: the loaded session reports the same name; it reports the
\* same thinking level when the log holds a thinking-level change and
\* "medium" otherwise; it reports the same model when the log holds a model
\* change and no model otherwise.  What the session was created with is
\* not in the file.
C28_DerivedPropertiesFromEntries ==
    Load(disk).ok =>
        LET loaded == Load(disk).session
        IN  /\ Name(loaded) = Name(session)
            /\ ThinkingLevel(loaded) =
                 IF HasEntryOfType(session, "thinking_level_change")
                 THEN ThinkingLevel(session) ELSE "medium"
            /\ Model(loaded) =
                 IF HasEntryOfType(session, "model_change")
                 THEN Model(session) ELSE <<>>

\* a session created with a model and level "high", then given another
\* model, another level and a name, whose file gives all three back
C28_Witness ==
    /\ Load(disk).ok
    /\ session.initial_provider = "openai"
    /\ session.initial_thinking_level = "high"
    /\ HasEntryOfType(session, "model_change")
    /\ HasEntryOfType(session, "thinking_level_change")
    /\ Model(session) = <<"local", "qwen", "http://l">>
    /\ ThinkingLevel(session) = "medium"
    /\ Name(session) = "My Session"
    /\ Model(Load(disk).session) = Model(session)
    /\ ThinkingLevel(Load(disk).session) = ThinkingLevel(session)
    /\ Name(Load(disk).session) = Name(session)

(***************************************************************************)
(* After stream_done (turn.py:278-284, 424-428)                            *)
(***************************************************************************)
\* a step of a turn that has already handled a stream_done part
C29_Step ==
    (pc = "turn" /\ obs.done # None) =>
        /\ obs'.consumed = obs.consumed
        /\ (pc' = "turn" /\ t'.pc = "ended") =>
              events'[Len(events')].stop_reason = obs.done

\* C29: on a stream_done part the executor leaves the chunk loop: no part
\* the provider yields after it is consumed, and the turn-end carries the
\* stop reason of that stream_done.
C29_NothingAfterStreamDone == [][C29_Step]_vars

(***************************************************************************)
(* Cancellation during the retry schedule (turn.py:205-223)                *)
(***************************************************************************)
\* a step taken while the executor sleeps between retries with the signal set
C30_Step ==
    (pc = "turn" /\ t.pc = "sleep" /\ cancel) => t'.pc # "open"

\* C30: the sleep between retries heeds the cancellation signal: once the
\* signal is set while the executor sleeps, it does not go on to open the
\* provider stream again.
C30_NoOpenAfterCancelledSleep == [][C30_Step]_vars

(***************************************************************************)
(* When the idle timeout is armed (turn.py:110-114, 284-292)               *)
(***************************************************************************)
\* a step that emits the stall warning
C31_Step ==
    (Count(events', "warning") > Count(events, "warning")) =>
        /\ cfg.tool_call_idle_timeout_seconds > 0
        /\ (t.current_state = "tool_call" \/ t.pending_tool_calls # <<>>)
        /\ Count(TurnEvents, "tool_start") >= 1

\* C31: the stall warning is emitted only with a configured timeout above
\* zero and only while the executor is in tool_call state or has a pending
\* tool-call, so never in a turn whose stream has so far produced only
\* thinking and text parts.
C31_TimeoutArmedOnlyForToolCalls == [][C31_Step]_vars

\* the timeout fired while a text block was being streamed after a
\* tool-call: the tool-call was pending, the state was not tool_call
C31_Witness ==
    /\ TurnEnded
    /\ cfg.tool_call_idle_timeout_seconds = 60
    /\ LET te == TurnEvents
       IN  /\ Count(te, "warning") = 1
           /\ Count(te, "tool_start") = 1
           /\ Count(te, "text_delta") = 1
           /\ LastIndexOf(te, "tool_start") < LastIndexOf(te, "text_delta")
           /\ LastIndexOf(te, "text_delta") < LastIndexOf(te, "warning")

(***************************************************************************)
(* Argument fragments of several tool-call slots (turn.py:388-408,         *)
(* openai_completions.py:196-211)                                          *)
(*                                                                         *)
(* SlotSpec streams the two tool-calls with a fragment for each slot; the  *)
(* fragments of the two slots differ, so that the tool-call a fragment     *)
(* went to can be read off the events.                                     *)
(***************************************************************************)
SlotDeltas ==
    { [kind |-> "tool_call_delta", index |-> 0, delta |-> <<"{", "k">>],
      [kind |-> "tool_call_delta", index |-> 1, delta |-> <<"v", "}">>] }
SlotParts == ToolCallStarts \cup SlotDeltas
SlotInit == InitWith(TokenConfigs)
SlotNext ==
    \/ Run
    \/ LoopTop
    \/ TurnEntry
    \/ StreamOpenOk
    \/ ChunkLoopTop
    \/ ChunkArrive(SlotParts, MaxParts)
SlotSpec == SlotInit /\ [][SlotNext]_vars

\* the slot a tool-call was started at, and the slot a fragment is for
SlotOfId(id) == (CHOOSE p \in ToolCallStarts : p.id = id).index
SlotOfDelta(delta) == (CHOOSE p \in SlotDeltas : p.delta = delta).index

\* C32: a tool_call_delta part with index i extends the arguments of the
\* tool-call started at slot i, also when the fragments of the two slots
\* arrive interleaved: every argument fragment is reported for, and
\* appended to, the tool-call of its own slot.
C32_DeltaGoesToItsSlot ==
    \A i \in DOMAIN events :
        (/\ events[i].type = "tool_args_delta"
         /\ \E j \in 1..(i - 1) :
               /\ events[j].type = "tool_start"
               /\ SlotOfId(events[j].tool_call_id)
                     = SlotOfDelta(events[i].delta))
        => SlotOfDelta(events[i].delta) = SlotOfId(events[i].tool_call_id)

(***************************************************************************)
(* Turns that end without an assistant message (loop.py:171-178)           *)
(***************************************************************************)
\* the loop is about to take a turn-end that carries no assistant message
NullTurnEnd ==
    /\ pc = "turn" /\ t.pc = "ended"
    /\ Last(events).type = "turn_end"
    /\ Last(events).assistant_message = NoneOpt

C33_Step ==
    NullTurnEnd =>
        /\ session' = session
        /\ disk' = disk
        /\ run'.usage = run.usage

\* C33: a turn whose turn-end carries no assistant message (the turn was
\* cancelled before it began, or the stream could not be opened) leaves the
\* session and its file as they were and adds nothing to the usage total
\* of the run.
C33_NullTurnLeavesSession == [][C33_Step]_vars

\* the second turn of a run was cancelled before it began: the entries and
\* the usage are those the first turn left
C33_Witness ==
    /\ pc = "loop_exit"
    /\ run.turn = 2
    /\ Last(events).type = "turn_end"
    /\ Last(events).assistant_message = NoneOpt
    /\ Last(events).stop_reason = "interrupted"
    /\ run.usage = UsageSmall
    /\ Len(session.entries) = 3

(***************************************************************************)
(* When a compaction starts (loop.py:182-201, 215-249)                     *)
(***************************************************************************)
EmitsType(type) == Count(events', type) > Count(events, type)
LastType == IF events = <<>> THEN "none" ELSE Last(events).type

C34_Step ==
    /\ EmitsType("compaction_start") =>
          /\ Last(events).type = "turn_end"
          /\ Last(events).stop_reason \notin {"error", "interrupted"}
          /\ ~run.was_interrupted
          /\ ~cancel
          /\ LastAssistantUsage(session'.entries) # NoneOpt
          /\ events' = Append(events, Ev("compaction_start"))
    /\ (LastType = "compaction_start" /\ events' # events) =>
          /\ Len(events') = Len(events) + 1
          /\ Last(events').type = "compaction_end"
    /\ EmitsType("compaction_end") => LastType = "compaction_start"

\* C34: a compaction-start is emitted only right after the turn-end of a
\* turn that did not end with ERROR and was not interrupted, with the
\* cancellation signal not set and with a usage on the most recent
\* assistant message of the session; the event that follows a
\* compaction-start is a compaction-end, and a compaction-end follows
\* nothing else, so each start has exactly one end before the next
\* turn-start or agent-end.
C34_CompactionStartGuarded == [][C34_Step]_vars

\* a compaction ran between two turns
C34_Witness ==
    \E i \in DOMAIN events :
        /\ i + 2 <= Len(events)
        /\ events[i].type = "compaction_start"
        /\ events[i + 1].type = "compaction_end"
        /\ events[i + 2].type = "turn_start"
        /\ events[i - 1].type = "turn_end"
        /\ events[i - 1].stop_reason = "stop"

(***************************************************************************)
(* The turn after a compaction (loop.py:190-201, 264-278)                  *)
(***************************************************************************)
C35_Step ==
    (LastType = "compaction_end" /\ EmitsType("turn_start")) =>
        /\ Last(session.entries).type = "message"
        /\ Last(session.entries).message = ContinueMessage
        /\ Last(Messages(session)) = ContinueMessage

\* C35: whenever the loop starts another turn right after a compaction-end
\* event, the synthetic continue message has been injected: it is the last
\* entry of the session and the last message of the compacted view the
\* next turn sends to the provider.
C35_ContinueMessageBeforeNextTurn == [][C35_Step]_vars

(***************************************************************************)
(* Session.load on files it did not write (session.py:433-480)             *)
(*                                                                         *)
(* LoadSpec starts from a file of up to MaxEntries lines and loads it.  A  *)
(* line is held as the object json.loads gives; a blank line and a line    *)
(* json.loads rejects are held as objects of a type the dispatch of load   *)
(* does not know, which it passes over as it does those two                *)
(* (session.py:444-451).                                                   *)
(***************************************************************************)
BlankLine == [type |-> "(blank)"]
InvalidLine == [type |-> "(not json)"]
FileLines ==
    { BlankLine, InvalidLine, DumpHeader(SessionHeader("sid", "/proj")),
      DumpEntry(MessageEntry("e1", None, UserMessage("query"))) }
Files == UNION { [1..n -> FileLines] : n \in 0..MaxEntries }

LoadInit ==
    /\ session = NewSession("none", "/", None, FALSE, None, None, "medium")
    /\ \E f \in Files : disk = [exists |-> TRUE, lines |-> f]
    /\ rng = 1
    /\ cfg = IdleCfg
    /\ cancel = FALSE
    /\ pc = "idle"
    /\ run = IdleRun
    /\ t = IdleTurn
    /\ events = <<>>
    /\ obs = IdleObs
    /\ ui = IdleUi

\* Session.load raises ValueError "no header" (session.py:467-468)
CallLoadRaises ==
    /\ ~Load(disk).ok
    /\ ~obs.raised
    /\ obs' = [obs EXCEPT !.raised = TRUE]
    /\ UNCHANGED <<session, disk, rng, cfg, ui, cancel, pc, run, t, events>>

LoadNext == CallLoad \/ CallLoadRaises
LoadSpec == LoadInit /\ [][LoadNext]_vars

\* the lines of a file that are neither blank nor rejected by json.loads
ValidLines(lines) ==
    SelectSeq(lines, LAMBDA l : l # BlankLine /\ l # InvalidLine)
HeaderFirst(lines) ==
    ValidLines(lines) # <<>> /\ ValidLines(lines)[1].type = "header"
Loaded == session.header # NoneOpt

\* C36: load passes over blank lines and lines that are not JSON, and it
\* requires the first valid line to be a header: it returns a session, with
\* the entries of the valid lines, only for a file whose first valid line
\* is a header, and raises "no header" for every other file.
C36_LoadRequiresLeadingHeader ==
    /\ Loaded =>
          /\ HeaderFirst(disk.lines)
          /\ session.entries = LoadEntries(ValidLines(disk.lines))
    /\ obs.raised => ~HeaderFirst(disk.lines)

(***************************************************************************)
(* The terminal app as the caller of Agent.run and of /compact             *)
(* (ui/app.py:550-573, 578-748; ui/commands.py:548-598)                    *)
(*                                                                         *)
(* UiSpec starts from a session that already holds a conversation, so that *)
(* /compact has something to summarise, and follows one submitted query.   *)
(* Both the agent run and the /compact job are workers of the app in the   *)
(* same group; run_worker(..., exclusive=True) cancels the workers of that *)
(* group, and the cancelled /compact job ends at its await of              *)
(* generate_summary, because CancelledError is not an Exception.  At most  *)
(* one /compact job is followed at a time, and /compact is entered only    *)
(* while the log holds fewer than MaxEntries entries.                      *)
(***************************************************************************)
UiConfigs ==
    { Config(1, o, 60, Some(UsageBig)) : o \in {"continue", "pause"} }

UiInit ==
    /\ LET res == AppendMessages(
                      SessionCreate("/proj", TRUE, None, None, "medium"),
                      NoFile, 1,
                      <<UserMessage("hi"),
                        AssistantMessage(<<TextContent(<<"x">>)>>,
                                         Some(UsageSmall), "stop")>>)
       IN  /\ session = res.s
           /\ disk = res.d
           /\ rng = res.r
    /\ cfg \in UiConfigs
    /\ cancel = FALSE
    /\ pc = "idle"
    /\ run = IdleRun
    /\ t = IdleTurn
    /\ events = <<>>
    /\ obs = IdleObs
    /\ ui = IdleUi

\* tokens_before of _do_compact (commands.py:573-584)
ManualTokensBefore(s) ==
    IF LastAssistantUsage(s.entries) = NoneOpt THEN 0
    ELSE TokensBefore(LastAssistantUsage(s.entries)[1])

\* _handle_compact_command starts the /compact worker (commands.py:548-564)
HandleCompactCommand ==
    /\ CanAppend
    /\ ~ui.is_running
    /\ ~ui.compacting
    /\ AllMessages(session) # <<>>
    /\ ui' = [ui EXCEPT !.compacting = TRUE]
    /\ UNCHANGED <<session, disk, rng, cfg, cancel, pc, run, t, events, obs>>

\* _do_compact: generate_summary returns (commands.py:586-594)
DoCompactOk ==
    /\ ui.compacting
    /\ \E summary \in Summaries :
         Commit(AppendCompaction(session, disk, rng, summary,
                                 IF session.leaf_id # None
                                 THEN session.leaf_id ELSE "",
                                 ManualTokensBefore(session)))
    /\ ui' = [ui EXCEPT !.compacting = FALSE]
    /\ UNCHANGED <<cfg, cancel, pc, run, t, events, obs>>

\* _do_compact: generate_summary raises (commands.py:596-598)
DoCompactFail ==
    /\ ui.compacting
    /\ ui' = [ui EXCEPT !.compacting = FALSE]
    /\ UNCHANGED <<session, disk, rng, cfg, cancel, pc, run, t, events, obs>>

\* mutant: the agent worker is started without cancelling the other workers
OnInputSubmitted_NotExclusive ==
    /\ ~ui.is_running
    /\ pc = "idle"
    /\ ui' = [ui EXCEPT !.is_running = TRUE]
    /\ UNCHANGED <<session, disk, rng, cfg, cancel, pc, run, t, events, obs>>

\* on_input_submitted with a query while no run is in progress
\* (app.py:561-573)
OnInputSubmitted ==
    /\ ~ui.is_running
    /\ pc = "idle"
    /\ ui' = [is_running |-> TRUE, compacting |-> FALSE]
    /\ UNCHANGED <<session, disk, rng, cfg, cancel, pc, run, t, events, obs>>

\* _run_agent enters Agent.run (app.py:611-613)
RunAgent == ui.is_running /\ Run

\* _run_agent returns after agent-end (app.py:720-748)
RunAgentDone ==
    /\ ui.is_running
    /\ pc = "done"
    /\ ui' = [ui EXCEPT !.is_running = FALSE]
    /\ UNCHANGED <<session, disk, rng, cfg, cancel, pc, run, t, events, obs>>

\* action_cycle_thinking_level (shift+tab) while the run awaits the
\* provider; followed for the first change of level only (app.py:533-548)
ActionCycleThinkingLevel ==
    /\ ui.is_running
    /\ pc = "turn" /\ t.pc = "await_chunk"
    /\ LastOfType(session.entries, "thinking_level_change") = NoneOpt
    /\ \E level \in ThinkingLevels :
         IF SetThinkingLevelAppends(session, level)
         THEN Commit(AppendThinkingLevelChange(session, disk, rng, level))
         ELSE UNCHANGED <<session, disk, rng>>
    /\ UNCHANGED agentVars

UiNext ==
    \/ HandleCompactCommand
    \/ ActionCycleThinkingLevel
    \/ DoCompactOk
    \/ DoCompactFail
    \/ OnInputSubmitted
    \/ RunAgent
    \/ RunAgentDone
    \/ LoopTop
    \/ TurnEntry
    \/ StreamOpenOk
    \/ ChunkLoopTop
    \/ ChunkArrive(CoreParts, MaxRunParts)
    \/ StreamExhausted
    \/ EmitToolEnds
    \/ ToolDispatch
    \/ ToolReturn
    \/ TurnEnd
    \/ LoopOnTurnEnd
    \/ SummaryOk
    \/ SummaryFail
    \/ LoopExit
UiSpec == UiInit /\ [][UiNext]_vars

\* Agent.run has appended the user message and not yet yielded agent-end
RunInProgress == pc \notin {"idle", "done"}

C37_Step ==
    (RunInProgress
       /\ Cardinality(CompactionsAt(session'.entries))
            > Cardinality(CompactionsAt(session.entries)))
    => (pc = "compacting" /\ ~ui.compacting)

\* the steps of Agent.run that append to the session: the user message,
\* the messages of a turn-end, and the overflow compaction
LoopAppends ==
    \/ pc = "idle"
    \/ pc = "turn" /\ t.pc = "ended"
    \/ pc = "compacting"

C37_OnlyLoopStep ==
    (pc # "done" /\ ui.is_running /\ session'.entries # session.entries)
        => LoopAppends

LastTurnEnd == events[LastIndexOf(events, "turn_end")]

\* the chunk loop is over and left at least one tool-call queued
LoopEndedWithQueue ==
    /\ pc = "turn"
    /\ t.pc \in {"post_loop", "tools", "executing", "ended"}
    /\ t.pending_tool_calls # <<>>

StopCarriesNoResults ==
    /\ \A i \in DOMAIN events :
         events[i].type = "turn_end" /\ events[i].stop_reason = "stop"
             => events[i].tool_results = <<>>
    /\ LoopEndedWithQueue => t.stop_reason # "stop"

\* the run is over and its last turn executed a tool although the stream
\* ended with STOP or without a terminal part
RunEndedAfterPromotedTurn ==
    /\ pc = "done"
    /\ obs.executed # <<>>
    /\ obs.done \in {None, "stop"}
    /\ LastTurnEnd.stop_reason = "tool_use"

\* C38 as stated: no turn-end with stop reason STOP carries tool results, the
\* stop reason is not STOP once the chunk loop ended with a tool-call queued,
\* and a run never ends below max_turns on a turn that executed tools under
\* a STOP or absent terminal part
C38_ToolTurnAlwaysFollowed ==
    /\ StopCarriesNoResults
    /\ RunEndedAfterPromotedTurn => run.turn >= cfg.max_turns

\* C38 amended: no turn-end with stop reason STOP carries tool results, the
\* stop reason is not STOP once the chunk loop ended with a tool-call queued,
\* and a run ends below max_turns on a turn that executed tools under a STOP
\* or absent terminal part only when it was cancelled before the next turn
\* started or a compaction ended it in pause mode
C38_ToolTurnFollowedUnlessStopped ==
    /\ StopCarriesNoResults
    /\ RunEndedAfterPromotedTurn =>
         \/ run.turn >= cfg.max_turns
         \/ run.was_interrupted /\ events[Len(events) - 1] = InterruptedEvent
         \/ /\ cfg.on_overflow = "pause"
            /\ events[Len(events) - 1].type = "compaction_end"

\* the stream ended with STOP after a tool-call, the tool was executed, the
\* turn-end says TOOL_USE and the loop goes on to the next turn
C38_Witness ==
    /\ pc = "loop_top"
    /\ run.turn = 1 /\ cfg.max_turns = 2
    /\ obs.done = "stop"
    /\ obs.executed = <<"call-1">>
    /\ Last(events).type = "turn_end"
    /\ Last(events).stop_reason = "tool_use"
    /\ Len(Last(events).tool_results) = 1
    /\ ~IsSkipped(Last(events).tool_results[1])

(***************************************************************************)
(* C39: the interrupted event of a run                                     *)
(***************************************************************************)
FirstInterrupted ==
    CHOOSE i \in DOMAIN events :
        /\ events[i].type = "interrupted"
        /\ \A j \in 1..(i - 1) : events[j].type # "interrupted"

\* C39: a run emits at most one interrupted event; after it there is no
\* turn-start and no compaction-start, and the agent-end of the run reports
\* INTERRUPTED, also when the turn counter has reached max_turns
C39_InterruptedOnceAndFinal ==
    /\ Count(events, "interrupted") <= 1
    /\ Count(events, "interrupted") = 1 =>
         \A j \in DOMAIN events :
             /\ j > FirstInterrupted =>
                  events[j].type \notin {"turn_start", "compaction_start"}
             /\ events[j].type = "agent_end" =>
                  /\ j > FirstInterrupted
                  /\ events[j].stop_reason = "interrupted"

\* a run interrupted in its last allowed turn, after the turn overflowed the
\* context: no compaction follows and agent-end says INTERRUPTED, not LENGTH
C39_Witness ==
    /\ pc = "done"
    /\ cfg.max_turns >= 1
    /\ run.turn = cfg.max_turns
    /\ cfg.stream_usage = Some(UsageBig)
    /\ Count(events, "interrupted") = 1
    /\ Count(events, "turn_end") = run.turn
    /\ LastTurnEnd.assistant_message # NoneOpt
    /\ Last(events).type = "agent_end"
    /\ Last(events).stop_reason = "interrupted"

(***************************************************************************)
(* TermSpec: a run in which every awaited call returns                     *)
(***************************************************************************)
\* the largest max_turns, in either overflow mode; a small usage never
\* overflows the context window and a big one does after every turn
TermConfigs ==
    { Config(MaxTurns, o[1], 60, o[2]) :
        o \in { <<"continue", Some(UsageSmall)>>,
                <<"continue", Some(UsageBig)>>, <<"pause", Some(UsageBig)>> } }

\* the parts that decide what the loop does next: a tool-call to queue, the
\* terminal parts the loop tells apart, and a stream error
TermParts ==
    { [kind |-> "tool_call_start", id |-> "call-1", name |-> "read",
       index |-> 0],
      [kind |-> "stream_done", stop_reason |-> "stop"],
      [kind |-> "stream_done", stop_reason |-> "tool_use"] }
        \cup StreamErrors

\* the steps Agent.run takes once the call it awaits has returned: the
\* stream opening, the retry sleep, the fetch of a part, the tool execution
\* and the summary generation
RunSteps ==
    \/ LoopTop
    \/ TurnEntry
    \/ StreamOpenOk
    \/ StreamOpenFail
    \/ RetrySleepDone
    \/ ChunkLoopTop
    \/ ChunkArrive(TermParts, MaxRunParts)
    \/ ChunkCancelled
    \/ ChunkTimeout
    \/ StreamExhausted
    \/ StreamRaise
    \/ EmitToolEnds
    \/ ToolDispatch
    \/ ToolReturn
    \/ TurnEnd
    \/ SummaryFail
    \/ SummaryOk
    \/ LoopExit
\* WF_vars(LoopOnTurnEnd) written with its enabling condition: the loop body
\* is resumed when run_single_turn has yielded its turn-end, LoopOnTurnEnd is
\* enabled in exactly those states and each of its steps leaves them
LoopResumes == []<>(~TurnEnded)
TermNext == Run \/ Cancel \/ RunSteps \/ LoopOnTurnEnd
TermInit == InitWith(TermConfigs)
TermSpec == TermInit /\ [][TermNext]_vars /\ WF_vars(RunSteps) /\ LoopResumes

RunEnded == pc = "done" /\ Last(events).type = "agent_end"

====
